---- MODULE Spec2Model ----
(***************************************************************************)
(* Incremental board layout and merge engine of the eventstorming agent    *)
(* (src/eventstorming_agent/agent.py): _create_eventstorming_board with    *)
(* its nested column packer / merge resolver, and _adjust_board_layout.    *)
(* The persisted board evolves by layout runs (each run merges a concept   *)
(* model against the persisted board) and by the user dragging items.      *)
(***************************************************************************)
EXTENDS Integers, Sequences, FiniteSets, TLC

VARIABLES
    board,            \* the persisted board (last returned board, possibly dragged since)
    concepts,         \* the EventstormingConcepts given to the last layout run
    existing_board,   \* the existing_board argument of the last layout run
    lastOp,           \* "none" | "layout" | "drag": the last step taken
    relayout,         \* the last run had the model of the run before it and, as
                      \* existing_board, exactly the board that run returned
    runs,             \* layout runs so far
    drags,            \* user drags so far
    dim_args,         \* the arguments of a call of compute_item_dimensions
    dim_result,       \* what the call returned
    payload,          \* the argument of a call of _normalize_generated_payload
    normalized,       \* what the call returned
    agent_pc,         \* where a call of EventstormingAgent.ainvoke stands:
                      \* "idle" | "generating" | "generated" | "returned"
    attempts,         \* the generator calls made so far (i of "for i in range(3)")
    responses,        \* what each generator call ended with
    generated,        \* the concepts _generate_eventstorming_concepts returned
    layout_calls      \* calls of _create_eventstorming_board

layoutVars == <<board, concepts, existing_board, lastOp, relayout, runs, drags>>
dimVars == <<dim_args, dim_result>>
normVars == <<payload, normalized>>
agentVars == <<agent_pc, attempts, responses, generated, layout_calls>>
vars == <<layoutVars, dimVars, normVars, agentVars>>

----------------------------------------------------------------------------
\* Bounds of the exploration.
MaxRuns == 3
MaxDrags == 1

----------------------------------------------------------------------------
\* Program constants (agent.py:261-264, 317-320, 502, 648-649).
MIN_ITEM_WIDTH == 140
MAX_ITEM_WIDTH == 460
MIN_ITEM_HEIGHT == 80
MAX_ITEM_HEIGHT == 260
CONTEXT_H_GAP == 50
ITEM_H_GAP == 50
ITEM_V_GAP == 30
PADDING == 50
COLLAPSE_THRESHOLD == 50

Max(a, b) == IF a >= b THEN a ELSE b
Min(a, b) == IF a <= b THEN a ELSE b

RECURSIVE SeqMax(_)
SeqMax(s) == IF Len(s) = 1 THEN s[1] ELSE Max(s[1], SeqMax(Tail(s)))

\* BASE_ITEM_DIMENSIONS.get(item_type, BASE_ITEM_DIMENSIONS["default"])
BASE_ITEM_DIMENSIONS(item_type) ==
    CASE item_type = "Command"   -> [width |-> 230, height |-> 110]
      [] item_type = "Event"     -> [width |-> 210, height |-> 90]
      [] item_type = "Policy"    -> [width |-> 250, height |-> 130]
      [] item_type = "Aggregate" -> [width |-> 260, height |-> 140]
      [] item_type = "Actor"     -> [width |-> 200, height |-> 90]
      [] item_type = "ReadModel" -> [width |-> 250, height |-> 140]
      [] OTHER                   -> [width |-> 220, height |-> 100]

\* fit_dimensions with the width of a named item taken from the name alone,
\* without the max with the base width.
fit_dimensions_name_width(base, data) ==
    LET w1 == IF Len(data.name) > 0
              THEN Min(MAX_ITEM_WIDTH, MIN_ITEM_WIDTH + Len(data.name) * 9)
              ELSE base.width
        h1 == IF Len(data.description) > 0
              THEN base.height + ((Len(data.description) \div 40) + 1) * 14
              ELSE base.height
    IN  << Max(MIN_ITEM_WIDTH, Min(MAX_ITEM_WIDTH, w1)),
           Max(MIN_ITEM_HEIGHT,
               Min(MAX_ITEM_HEIGHT, h1 + Min(80, Len(data.attributes) * 6))) >>

\* fit_dimensions counting len(description) // 40 lines, without the "+ 1".
fit_dimensions_no_extra_line(base, data) ==
    LET w1 == IF Len(data.name) > 0
              THEN Max(base.width,
                       Min(MAX_ITEM_WIDTH, MIN_ITEM_WIDTH + Len(data.name) * 9))
              ELSE base.width
        h1 == IF Len(data.description) > 0
              THEN base.height + (Len(data.description) \div 40) * 14
              ELSE base.height
    IN  << Max(MIN_ITEM_WIDTH, Min(MAX_ITEM_WIDTH, w1)),
           Max(MIN_ITEM_HEIGHT,
               Min(MAX_ITEM_HEIGHT, h1 + Min(80, Len(data.attributes) * 6))) >>

\* compute_item_dimensions, given the base dimensions of the type.
fit_dimensions(base, data) ==
    LET w1 == IF Len(data.name) > 0
              THEN Max(base.width,
                       Min(MAX_ITEM_WIDTH, MIN_ITEM_WIDTH + Len(data.name) * 9))
              ELSE base.width
        h1 == IF Len(data.description) > 0
              THEN base.height + ((Len(data.description) \div 40) + 1) * 14
              ELSE base.height
    IN  << Max(MIN_ITEM_WIDTH, Min(MAX_ITEM_WIDTH, w1)),
           Max(MIN_ITEM_HEIGHT,
               Min(MAX_ITEM_HEIGHT, h1 + Min(80, Len(data.attributes) * 6))) >>

\* compute_item_dimensions: data is the dict of the pydantic item
\* ([name, description, attributes]); only ReadModels carry attributes.
compute_item_dimensions(item_type, data) ==
    fit_dimensions(BASE_ITEM_DIMENSIONS(item_type), data)

----------------------------------------------------------------------------
\* JSON values as json.loads returns them: None, str, list and dict, tagged
\* by t.  A dict is a function from its keys to values; a key that is absent
\* is not in its domain.
Null == [t |-> "null"]
Str(s) == [t |-> "str", s |-> s]
List(l) == [t |-> "list", l |-> l]
Dict(d) == [t |-> "dict", d |-> d]

\* The outcome of a call that raised.
Raised == [t |-> "raised"]

\* d.get(k)
get(d, k) == IF k \in DOMAIN d THEN d[k] ELSE Null

\* d[k] = v
put(d, k, v) == [j \in DOMAIN d \cup {k} |-> IF j = k THEN v ELSE d[j]]

\* d.setdefault(k, v): sets the key only when it is absent.
setdefault(d, k, v) == IF k \in DOMAIN d THEN d ELSE put(d, k, v)

\* bool(v)
truthy(v) ==
    CASE v.t = "null" -> FALSE
      [] v.t = "str" -> v.s # ""
      [] v.t = "list" -> v.l # << >>
      [] v.t = "dict" -> DOMAIN v.d # {}

\* a or b
py_or(a, b) == IF truthy(a) THEN a ELSE b

\* d.setdefault(k, d.get(k) or default)
default_key(d, k, default) == setdefault(d, k, py_or(get(d, k), default))

\* _ensure_list that returns None as it is (the "if value is None" branch
\* left out of its place).
_ensure_list_keeps_none(value) ==
    IF value.t = "list" THEN value
    ELSE IF value.t = "null" THEN value
    ELSE List(<<value>>)

\* _ensure_list(value) with default=None (agent.py:71-76).
_ensure_list(value) ==
    IF value.t = "list" THEN value
    ELSE IF value.t = "null" THEN List(<< >>)
    ELSE List(<<value>>)

\* ctx[k] = _ensure_list(ctx.get(k))
ensure_key(d, k) == put(d, k, _ensure_list(get(d, k)))

\* The body of "for ctx in contexts" for a dict (agent.py:90-97).
normalize_context(ctx) ==
    Dict(ensure_key(ensure_key(ensure_key(ensure_key(ensure_key(
             default_key(default_key(ctx.d, "name", Str("UnnamedContext")),
                         "description", Str("")),
             "events"), "commands"), "policies"), "aggregates"), "readModels"))

\* The loop over the contexts (agent.py:86-97): entries that are not dicts
\* are skipped.
RECURSIVE normalize_contexts(_, _)
normalize_contexts(contexts, idx) ==
    IF idx > Len(contexts) THEN << >>
    ELSE (IF contexts[idx].t = "dict"
          THEN << normalize_context(contexts[idx]) >> ELSE << >>)
         \o normalize_contexts(contexts, idx + 1)

\* The loop over the connections (agent.py:102-104): a dict gets its type,
\* any other entry is left as it is.
normalize_connections(connections) ==
    [i \in DOMAIN connections |->
        IF connections[i].t = "dict"
        THEN Dict(default_key(connections[i].d, "type", Str("Flow")))
        ELSE connections[i]]

\* agent.py:84-98 and 100-105, given the two lists _ensure_list returned;
\* "for x in None" raises TypeError.
normalize_lists(d, contexts, connections) ==
    IF contexts.t # "list" \/ connections.t # "list" THEN Raised
    ELSE Dict(put(put(d, "contexts", List(normalize_contexts(contexts.l, 1))),
                  "connections", List(normalize_connections(connections.l))))

\* _normalize_generated_payload(payload) (agent.py:79-109).
_normalize_generated_payload(value) ==
    IF value.t # "dict" THEN value
    ELSE normalize_lists(default_key(value.d, "project_name", Str("generated-project")),
                         _ensure_list(get(value.d, "contexts")),
                         _ensure_list(get(value.d, "connections")))

----------------------------------------------------------------------------
\* Board items.  A ContextBox has no "parent" key: parent = 0 stands for it.
\* producesEventId = 0 stands for "key not set".
NoBoard == [boardType |-> "None", instanceName |-> "", items |-> << >>,
            connections |-> << >>]

NoConcepts == [project_name |-> "", contexts |-> << >>, connections |-> << >>]

EmptyMap == [k \in {} |-> 0]

\* existing_items_map: keyed by (type, instanceName), a later item of the
\* existing board overwriting an earlier one of the same key (agent.py:301-309).
RECURSIVE existing_items_loop(_, _, _)
existing_items_loop(its, idx, map) ==
    IF idx > Len(its) THEN map
    ELSE existing_items_loop(its, idx + 1,
             IF its[idx].type # "" /\ its[idx].instanceName # ""
             THEN (<<its[idx].type, its[idx].instanceName>> :> its[idx]) @@ map
             ELSE map)

existing_items_map(existing) == existing_items_loop(existing.items, 1, EmptyMap)

\* item_id_counter left at its initial value: the scan of the existing
\* board's ids forgotten.
seed_item_id_counter_unseeded(its, counter) == counter

\* item_id_counter after the scan of the existing board (agent.py:296-314).
RECURSIVE seed_item_id_counter(_, _)
seed_item_id_counter(its, counter) ==
    IF its = << >> THEN counter
    ELSE LET item == Head(its)
         IN  seed_item_id_counter(Tail(its),
                 IF item.type # "" /\ item.instanceName # ""
                 THEN Max(counter, item.id + 1) ELSE counter)

\* The dict of a parsed pydantic item, with 'fields' mapped to 'attributes'
\* for a ReadModel (agent.py:328, 335, 344, 353, 360-363).  DomainCommand and
\* DomainPolicy declare only name and description, so the dict of a Command or
\* Policy never has a produced_event_name ("" stands for the missing key).
item_data(item_type, obj) ==
    [name |-> obj.name, description |-> obj.description,
     produced_event_name |-> "",
     attributes |-> IF item_type = "ReadModel"
                    THEN [i \in DOMAIN obj.fields |->
                             [name |-> obj.fields[i], type |-> "String"]]
                    ELSE << >>]

\* One entry of a column list: type, data and dimensions.
column_entry(item_type, data) ==
    [type |-> item_type, data |-> data,
     dimensions |-> compute_item_dimensions(item_type, data)]

column_entries(item_type, objs) ==
    [i \in DOMAIN objs |-> column_entry(item_type, item_data(item_type, objs[i]))]

left_column(context) ==
    column_entries("Command", context.commands) \o column_entries("Policy", context.policies)
center_column(context) == column_entries("Aggregate", context.aggregates)
right_column(context) ==
    column_entries("Event", context.events) \o column_entries("ReadModel", context.readModels)

RECURSIVE column_height(_, _)
column_height(column, idx) ==
    IF idx > Len(column) THEN 0
    ELSE column[idx].dimensions[2] + (IF idx > 1 THEN ITEM_V_GAP ELSE 0)
         + column_height(column, idx + 1)

column_stats(column) ==
    IF column = << >> THEN [width |-> 0, height |-> 0]
    ELSE [width |-> SeqMax([i \in DOMAIN column |-> column[i].dimensions[1]]),
          height |-> column_height(column, 1)]

\* present_columns with the empty columns kept in the order.
present_columns_keeps_empty(left_stats, center_stats, right_stats) ==
    IF left_stats.width = 0 /\ center_stats.width = 0 /\ right_stats.width = 0
    THEN << <<"placeholder", [width |-> MIN_ITEM_WIDTH, height |-> MIN_ITEM_HEIGHT]>> >>
    ELSE << <<"left", left_stats>>, <<"center", center_stats>>, <<"right", right_stats>> >>

\* The columns present, left to right (agent.py:386-394), given the stats
\* of the three columns.
present_columns(left_stats, center_stats, right_stats) ==
    LET present ==
               (IF left_stats.width # 0 THEN << <<"left", left_stats>> >> ELSE << >>)
            \o (IF center_stats.width # 0 THEN << <<"center", center_stats>> >> ELSE << >>)
            \o (IF right_stats.width # 0 THEN << <<"right", right_stats>> >> ELSE << >>)
    IN  IF present = << >>
        THEN << <<"placeholder", [width |-> MIN_ITEM_WIDTH, height |-> MIN_ITEM_HEIGHT]>> >>
        ELSE present

column_order(context) ==
    present_columns(column_stats(left_column(context)),
                    column_stats(center_column(context)),
                    column_stats(right_column(context)))

\* offset_after with no gap between the columns.
RECURSIVE offset_after_no_gap(_, _)
offset_after_no_gap(order, n) ==
    IF n = 0 THEN PADDING
    ELSE offset_after_no_gap(order, n - 1) + order[n][2].width

\* current_offset after the first n columns of the order (agent.py:397-402).
RECURSIVE offset_after(_, _)
offset_after(order, n) ==
    IF n = 0 THEN PADDING
    ELSE offset_after(order, n - 1) + order[n][2].width
         + (IF n - 1 < Len(order) - 1 THEN ITEM_H_GAP ELSE 0)

\* column_x_positions.get(key, PADDING)
x_position(order, key) ==
    LET at == {i \in DOMAIN order : order[i][1] = key}
    IN  IF at = {} THEN PADDING ELSE offset_after(order, (CHOOSE i \in at : TRUE) - 1)

column_x_position(context, key) == x_position(column_order(context), key)

\* inner_width = current_offset - PADDING (agent.py:404)
order_width(order) == offset_after(order, Len(order)) - PADDING

inner_width(context) == order_width(column_order(context))

inner_height(context) ==
    Max(Max(column_stats(left_column(context)).height,
            column_stats(center_column(context)).height),
        Max(column_stats(right_column(context)).height, MIN_ITEM_HEIGHT))

context_width(context) == inner_width(context) + PADDING
context_height(context) == inner_height(context) + (2 * PADDING)

----------------------------------------------------------------------------
\* Identity merge.  st carries what the Python closures share:
\*   items, item_id_counter, name_to_id_map, item_context_map, global_x_offset.

\* is_collapsed with the threshold itself counted as collapsed (<= for <).
is_collapsed_inclusive(column_name, preserved_x, ideal_x) ==
    /\ column_name \in {"center", "right"}
    /\ preserved_x <= (ideal_x - COLLAPSE_THRESHOLD)

\* is_collapsed that tests the right column only.
is_collapsed_right_only(column_name, preserved_x, ideal_x) ==
    /\ column_name \in {"right"}
    /\ preserved_x < (ideal_x - COLLAPSE_THRESHOLD)

\* is_collapsed without the test of the column.
is_collapsed_any_column(column_name, preserved_x, ideal_x) ==
    preserved_x < (ideal_x - COLLAPSE_THRESHOLD)

\* is_collapsed (agent.py:499-504)
is_collapsed(column_name, preserved_x, ideal_x) ==
    /\ column_name \in {"center", "right"}
    /\ preserved_x < (ideal_x - COLLAPSE_THRESHOLD)

\* placed_item with a matched item keeping the parent of its prior record.
placed_item_prior_parent(item_entry, x_pos, column_name, relative_y_offset, context_id, final_context_x, final_context_y, item_id_counter, eim) ==
    LET ideal_x == final_context_x + x_pos
        ideal_y == final_context_y + relative_y_offset
        key == <<item_entry.type, item_entry.data.name>>
        base_item == [id |-> item_id_counter,
                      parent |-> context_id,
                      type |-> item_entry.type,
                      instanceName |-> item_entry.data.name,
                      description |-> item_entry.data.description,
                      x |-> ideal_x,
                      y |-> ideal_y,
                      width |-> item_entry.dimensions[1],
                      height |-> item_entry.dimensions[2],
                      pending_produced_event_name |->
                          IF item_entry.type \in {"Command", "Policy"}
                          THEN item_entry.data.produced_event_name ELSE "",
                      producesEventId |-> 0]
    IN  IF key \in DOMAIN eim
        THEN LET existing_item == eim[key]
             IN  IF is_collapsed(column_name, existing_item.x, ideal_x)
                 THEN [base_item EXCEPT !.id = existing_item.id,
                                        !.parent = existing_item.parent]
                 ELSE [base_item EXCEPT !.x = existing_item.x,
                                        !.y = existing_item.y,
                                        !.id = existing_item.id,
                                        !.parent = existing_item.parent]
        ELSE base_item

\* placed_item that takes the description and the size of a matched item
\* from the existing board as well.
placed_item_prior_size(item_entry, x_pos, column_name, relative_y_offset, context_id, final_context_x, final_context_y, item_id_counter, eim) ==
    LET ideal_x == final_context_x + x_pos
        ideal_y == final_context_y + relative_y_offset
        key == <<item_entry.type, item_entry.data.name>>
        base_item == [id |-> item_id_counter,
                      parent |-> context_id,
                      type |-> item_entry.type,
                      instanceName |-> item_entry.data.name,
                      description |-> item_entry.data.description,
                      x |-> ideal_x,
                      y |-> ideal_y,
                      width |-> item_entry.dimensions[1],
                      height |-> item_entry.dimensions[2],
                      pending_produced_event_name |->
                          IF item_entry.type \in {"Command", "Policy"}
                          THEN item_entry.data.produced_event_name ELSE "",
                      producesEventId |-> 0]
    IN  IF key \in DOMAIN eim
        THEN LET existing_item == eim[key]
                 kept == [base_item EXCEPT !.id = existing_item.id,
                                           !.description = existing_item.description,
                                           !.width = existing_item.width,
                                           !.height = existing_item.height]
             IN  IF is_collapsed(column_name, existing_item.x, ideal_x)
                 THEN kept
                 ELSE [kept EXCEPT !.x = existing_item.x, !.y = existing_item.y]
        ELSE base_item

\* One iteration of the loop of place_column_items (agent.py:455-524):
\* the item appended for item_entry at relative_y_offset.
placed_item(item_entry, x_pos, column_name, relative_y_offset, context_id, final_context_x, final_context_y, item_id_counter, eim) ==
    LET ideal_x == final_context_x + x_pos
        ideal_y == final_context_y + relative_y_offset
        key == <<item_entry.type, item_entry.data.name>>
        base_item == [id |-> item_id_counter,
                      parent |-> context_id,
                      type |-> item_entry.type,
                      instanceName |-> item_entry.data.name,
                      description |-> item_entry.data.description,
                      x |-> ideal_x,
                      y |-> ideal_y,
                      width |-> item_entry.dimensions[1],
                      height |-> item_entry.dimensions[2],
                      pending_produced_event_name |->
                          IF item_entry.type \in {"Command", "Policy"}
                          THEN item_entry.data.produced_event_name ELSE "",
                      producesEventId |-> 0]
    IN  IF key \in DOMAIN eim
        THEN LET existing_item == eim[key]
             IN  IF is_collapsed(column_name, existing_item.x, ideal_x)
                 THEN [base_item EXCEPT !.id = existing_item.id]
                 ELSE [base_item EXCEPT !.x = existing_item.x,
                                        !.y = existing_item.y,
                                        !.id = existing_item.id]
        ELSE base_item

\* append_item with name_to_id_map[name] set to the context's id instead of
\* the item's.
append_item_names_context(st, item, context_id) ==
    [st EXCEPT
       !.items = Append(@, item),
       !.name_to_id_map = (item.instanceName :> context_id) @@ @,
       !.item_context_map = (item.id :> context_id) @@ @,
       !.item_id_counter = Max(@, item.id + 1)]

\* items.append(base_item) and the maps and counter that follow it
\* (agent.py:513-524).
append_item(st, item, context_id) ==
    [st EXCEPT
       !.items = Append(@, item),
       !.name_to_id_map = (item.instanceName :> item.id) @@ @,
       !.item_context_map = (item.id :> context_id) @@ @,
       !.item_id_counter = Max(@, item.id + 1)]

RECURSIVE place_column_loop(_, _, _, _, _, _, _, _, _, _)
place_column_loop(column, idx, x_pos, column_name, relative_y_offset, context_id, final_context_x, final_context_y, eim, st) ==
    IF idx > Len(column) THEN st
    ELSE LET rest(item) ==
                 place_column_loop(column, idx + 1, x_pos, column_name,
                     relative_y_offset + item.height + ITEM_V_GAP,
                     context_id, final_context_x, final_context_y, eim,
                     append_item(st, item, context_id))
         IN  rest(placed_item(column[idx], x_pos, column_name, relative_y_offset,
                              context_id, final_context_x, final_context_y,
                              st.item_id_counter, eim))

place_column_items(column, x_pos, column_name, context, context_id, final_context_x, final_context_y, eim, st) ==
    IF column = << >> THEN st
    ELSE place_column_loop(column, 1, x_pos, column_name,
             PADDING + ((inner_height(context) - column_stats(column).height) \div 2),
             context_id, final_context_x, final_context_y, eim, st)

\* The ContextBox as appended (agent.py:410-422).
fresh_context_box(context, item_id_counter, global_x_offset) ==
    [id |-> item_id_counter,
     parent |-> 0,
     type |-> "ContextBox",
     instanceName |-> context.name,
     description |-> context.description,
     x |-> global_x_offset,
     y |-> PADDING,
     width |-> context_width(context),
     height |-> context_height(context),
     pending_produced_event_name |-> "",
     producesEventId |-> 0]

\* preserved_context_box with collapse detection applied to the box as well.
preserved_context_box_collapse(fresh, eim) ==
    LET key == <<"ContextBox", fresh.instanceName>>
    IN  IF key \in DOMAIN eim
        THEN IF eim[key].x < fresh.x - COLLAPSE_THRESHOLD
             THEN [fresh EXCEPT !.id = eim[key].id]
             ELSE [fresh EXCEPT !.x = eim[key].x, !.y = eim[key].y, !.id = eim[key].id]
        ELSE fresh

\* "Preserve ContextBox position if exists" (agent.py:424-438): the prior
\* id and position are taken over whenever (ContextBox, name) is in the
\* existing board.
preserved_context_box(fresh, eim) ==
    LET key == <<"ContextBox", fresh.instanceName>>
    IN  IF key \in DOMAIN eim
        THEN [fresh EXCEPT !.x = eim[key].x, !.y = eim[key].y, !.id = eim[key].id]
        ELSE fresh

\* The ContextBox of a context after the merge (agent.py:410-438).
context_box(context, item_id_counter, global_x_offset, eim) ==
    preserved_context_box(
        fresh_context_box(context, item_id_counter, global_x_offset), eim)

\* One iteration of "for context in concepts.contexts" (agent.py:324-531).
layout_context(context, eim, st) ==
    LET after_box(box) ==
            [st EXCEPT
               !.items = Append(@, box),
               !.item_context_map = (box.id :> box.id) @@ @,
               !.item_id_counter = Max(@, box.id + 1)]
        columns(box, st1) ==
            place_column_items(right_column(context),
                column_x_position(context, "right"), "right",
                context, box.id, box.x, box.y, eim,
                place_column_items(center_column(context),
                    column_x_position(context, "center"), "center",
                    context, box.id, box.x, box.y, eim,
                    place_column_items(left_column(context),
                        column_x_position(context, "left"), "left",
                        context, box.id, box.x, box.y, eim, st1)))
        placed(box) == columns(box, after_box(box))
    IN  [placed(context_box(context, st.item_id_counter, st.global_x_offset, eim))
            EXCEPT !.global_x_offset = @ + context_width(context) + CONTEXT_H_GAP]

RECURSIVE layout_contexts(_, _, _, _)
layout_contexts(contexts, idx, eim, st) ==
    IF idx > Len(contexts) THEN st
    ELSE layout_contexts(contexts, idx + 1, eim, layout_context(contexts[idx], eim, st))

\* The state of the closures when the loop over the contexts has ended:
\* the merged items, before connections, producesEventId and repair.
merge_stage(model, existing) ==
    layout_contexts(model.contexts, 1, existing_items_map(existing),
        [items |-> << >>,
         item_id_counter |-> seed_item_id_counter(existing.items, 1),
         name_to_id_map |-> EmptyMap,
         item_context_map |-> EmptyMap,
         global_x_offset |-> PADDING])

----------------------------------------------------------------------------
\* dict.get(key): 0 stands for None (ids are only tested for truth).
map_get(map, key) == IF key \in DOMAIN map THEN map[key] ELSE 0

\* resolve_connections giving up at the first unresolved name.
RECURSIVE resolve_connections_stops(_, _, _, _)
resolve_connections_stops(conns, idx, name_to_id_map, item_context_map) ==
    IF idx > Len(conns) THEN << >>
    ELSE LET conn == conns[idx]
             from_id == map_get(name_to_id_map, conn.from_name)
             to_id == map_get(name_to_id_map, conn.to_name)
             from_context == map_get(item_context_map, from_id)
             to_context == map_get(item_context_map, to_id)
         IN  IF from_id # 0 /\ to_id # 0
             THEN IF from_context # 0 /\ to_context # 0 /\ from_context = to_context
                  THEN resolve_connections_stops(conns, idx + 1, name_to_id_map,
                                                 item_context_map)
                  ELSE << [id |-> "conn-" \o ToString(from_id) \o "-" \o ToString(to_id),
                           from |-> from_id, to |-> to_id, type |-> conn.type] >>
                       \o resolve_connections_stops(conns, idx + 1, name_to_id_map,
                                                    item_context_map)
             ELSE << >>

\* 7. The connections (agent.py:533-550).
RECURSIVE resolve_connections(_, _, _, _)
resolve_connections(conns, idx, name_to_id_map, item_context_map) ==
    IF idx > Len(conns) THEN << >>
    ELSE LET conn == conns[idx]
             from_id == map_get(name_to_id_map, conn.from_name)
             to_id == map_get(name_to_id_map, conn.to_name)
             from_context == map_get(item_context_map, from_id)
             to_context == map_get(item_context_map, to_id)
             rest == resolve_connections(conns, idx + 1, name_to_id_map, item_context_map)
         IN  IF from_id # 0 /\ to_id # 0
             THEN IF from_context # 0 /\ to_context # 0 /\ from_context = to_context
                  THEN rest
                  ELSE << [id |-> "conn-" \o ToString(from_id) \o "-" \o ToString(to_id),
                           from |-> from_id, to |-> to_id, type |-> conn.type] >> \o rest
             ELSE rest

\* str.lower().replace(" ", "") on the ASCII letters.
UPPERCASE == "ABCDEFGHIJKLMNOPQRSTUVWXYZ"
LOWERCASE == "abcdefghijklmnopqrstuvwxyz"

lower_char(c) ==
    LET at == {i \in 1..Len(UPPERCASE) : SubSeq(UPPERCASE, i, i) = c}
    IN  IF at = {} THEN c ELSE LET i == CHOOSE j \in at : TRUE IN SubSeq(LOWERCASE, i, i)

RECURSIVE normalized_name(_)
normalized_name(text) ==
    IF text = "" THEN ""
    ELSE LET c == SubSeq(text, 1, 1)
         IN  (IF c = " " THEN "" ELSE lower_char(c))
             \o normalized_name(SubSeq(text, 2, Len(text)))

\* needle in hay
contains(needle, hay) ==
    \E i \in 1..(Len(hay) - Len(needle) + 1) : SubSeq(hay, i, i + Len(needle) - 1) = needle

VERB_PAIRS ==
    << <<"register", "registered">>, <<"place", "placed">>, <<"create", "created">>,
       <<"update", "updated">>, <<"delete", "deleted">>, <<"cancel", "cancelled">>,
       <<"send", "sent">>, <<"pay", "paid">> >>

\* _infer_produced_event: the id of the first event of context_events that
\* shares a verb pair with the item's name, 0 for None.
RECURSIVE _infer_produced_event(_, _)
_infer_produced_event(item_name, context_events) ==
    IF context_events = << >> THEN 0
    ELSE LET normalized_item == normalized_name(item_name)
             normalized_event == normalized_name(Head(context_events).instanceName)
         IN  IF \E p \in DOMAIN VERB_PAIRS :
                    /\ contains(VERB_PAIRS[p][1], normalized_item)
                    /\ contains(VERB_PAIRS[p][2], normalized_event)
             THEN Head(context_events).id
             ELSE _infer_produced_event(item_name, Tail(context_events))

\* 7.5 producesEventId (agent.py:552-580).  Items are visited in order; an
\* item's own producesEventId does not change what the later ones see.
resolve_produces(items, name_to_id_map, item_context_map) ==
    LET context_events(ctx_id) ==
            SelectSeq(items, LAMBDA o :
                o.type = "Event" /\ map_get(item_context_map, o.id) = ctx_id)
        resolved(item) ==
            IF item.pending_produced_event_name # ""
            THEN map_get(name_to_id_map, item.pending_produced_event_name)
            ELSE IF item.type \in {"Command", "Policy"}
                    /\ map_get(item_context_map, item.id) # 0
                 THEN _infer_produced_event(item.instanceName,
                          context_events(map_get(item_context_map, item.id)))
                 ELSE 0
    IN  [i \in DOMAIN items |->
            [id |-> items[i].id, parent |-> items[i].parent, type |-> items[i].type,
             instanceName |-> items[i].instanceName,
             description |-> items[i].description,
             x |-> items[i].x, y |-> items[i].y,
             width |-> items[i].width, height |-> items[i].height,
             producesEventId |-> resolved(items[i])]]

----------------------------------------------------------------------------
\* 8. Containment repair: _adjust_board_layout (agent.py:642-734).

\* children_map[context["id"]]: positions of the items whose parent is the
\* box's id, in list order.
RECURSIVE children_of(_, _, _)
children_of(items, parent_id, idx) ==
    IF idx > Len(items) THEN << >>
    ELSE (IF items[idx].parent # 0 /\ items[idx].parent = parent_id
          THEN << idx >> ELSE << >>)
         \o children_of(items, parent_id, idx + 1)

\* The four growths of the "else" branch for an attached child
\* (agent.py:696-710).  ctx carries context["x"], ["y"], ["width"],
\* ["height"]; ctx_x and ctx_y of the source always equal ctx.x and ctx.y.
grow_left(ctx, child) ==
    IF child.x < ctx.x
    THEN [ctx EXCEPT !.x = @ - (ctx.x - child.x), !.width = @ + (ctx.x - child.x)]
    ELSE ctx

grow_top(ctx, child) ==
    IF child.y < ctx.y
    THEN [ctx EXCEPT !.y = @ - (ctx.y - child.y), !.height = @ + (ctx.y - child.y)]
    ELSE ctx

\* grow_right moving the edge to the child's edge, with no PADDING added.
grow_right_exact(ctx, child) ==
    IF child.x + child.width > ctx.x + ctx.width
    THEN [ctx EXCEPT !.width = child.x + child.width - ctx.x]
    ELSE ctx

grow_right(ctx, child) ==
    IF child.x + child.width > ctx.x + ctx.width
    THEN [ctx EXCEPT !.width = child.x + child.width - ctx.x + PADDING]
    ELSE ctx

grow_bottom(ctx, child) ==
    IF child.y + child.height > ctx.y + ctx.height
    THEN [ctx EXCEPT !.height = child.y + child.height - ctx.y + PADDING]
    ELSE ctx

\* grow_context without the growth to the right (agent.py:707-708 left out).
grow_context_no_right(ctx, child) ==
    grow_bottom(grow_top(grow_left(ctx, child), child), child)

\* The box grown to fit an attached child.
grow_context(ctx, child) ==
    grow_bottom(grow_right(grow_top(grow_left(ctx, child), child), child), child)

\* is_outside_x or is_outside_y (agent.py:689-693): ctx_right and ctx_bottom
\* are the box's edges as they were before the loop over the children.
is_detached(ctx, ctx_right, ctx_bottom, child) ==
    \/ child.x + child.width < ctx.x
    \/ child.x > ctx_right
    \/ child.y + child.height < ctx.y
    \/ child.y > ctx_bottom

\* The loop over the children (agent.py:681-710): the grown box and the
\* positions of the detached children, in list order.
RECURSIVE check_children(_, _, _, _, _, _)
check_children(items, children, k, ctx_right, ctx_bottom, acc) ==
    IF k > Len(children) THEN acc
    ELSE LET child == items[children[k]]
         IN  check_children(items, children, k + 1, ctx_right, ctx_bottom,
                 IF is_detached(acc.ctx, ctx_right, ctx_bottom, child)
                 THEN [acc EXCEPT !.detached = Append(@, children[k])]
                 ELSE [acc EXCEPT !.ctx = grow_context(@, child)])

type_order(item_type) ==
    CASE item_type = "Command" -> 0
      [] item_type = "Policy" -> 1
      [] item_type = "Aggregate" -> 2
      [] item_type = "Event" -> 3
      [] item_type = "ReadModel" -> 4
      [] OTHER -> 99

\* detached_children.sort(key=type_order): a stable sort.
sort_detached(items, detached) ==
    LET of(n) == SelectSeq(detached, LAMBDA i : type_order(items[i].type) = n)
    IN  of(0) \o of(1) \o of(2) \o of(3) \o of(4) \o of(99)

\* snap_detached that re-places the children without growing the box
\* (agent.py:731 left out).
RECURSIVE snap_detached_no_grow(_, _, _, _, _, _)
snap_detached_no_grow(items, box_idx, detached, k, ctx_x, current_y) ==
    IF k > Len(detached) THEN items
    ELSE LET c == detached[k]
             h == items[c].height
             items2 == [items EXCEPT ![c].x = ctx_x + PADDING,
                                     ![c].y = current_y]
         IN  snap_detached_no_grow(items2, box_idx, detached, k + 1, ctx_x,
                                   current_y + h + ITEM_V_GAP)

\* The loop over the sorted detached children (agent.py:726-732).
RECURSIVE snap_detached(_, _, _, _, _, _)
snap_detached(items, box_idx, detached, k, ctx_x, current_y) ==
    IF k > Len(detached) THEN items
    ELSE LET c == detached[k]
             h == items[c].height
             items2 == [items EXCEPT ![c].x = ctx_x + PADDING,
                                     ![c].y = current_y,
                                     ![box_idx].height = @ + h + ITEM_V_GAP]
         IN  snap_detached(items2, box_idx, detached, k + 1, ctx_x,
                           current_y + h + ITEM_V_GAP)

\* The box of the list set to the grown one (agent.py:697-710 write it
\* through context["x"] ... context["height"]).
grown_items(items, box_idx, ctx) ==
    [items EXCEPT ![box_idx].x = ctx.x,
                  ![box_idx].y = ctx.y,
                  ![box_idx].width = ctx.width,
                  ![box_idx].height = ctx.height]

\* place_detached with the column starting at the box's bottom edge itself.
place_detached_at_bottom(items, box_idx, acc) ==
    IF acc.detached = << >> THEN grown_items(items, box_idx, acc.ctx)
    ELSE snap_detached(grown_items(items, box_idx, acc.ctx), box_idx,
                       sort_detached(items, acc.detached), 1,
                       acc.ctx.x, acc.ctx.y + acc.ctx.height)

\* What follows the loop over the children (agent.py:712-732), acc being
\* the grown box and the detached children.
place_detached(items, box_idx, acc) ==
    IF acc.detached = << >> THEN grown_items(items, box_idx, acc.ctx)
    ELSE snap_detached(grown_items(items, box_idx, acc.ctx), box_idx,
                       sort_detached(items, acc.detached), 1,
                       acc.ctx.x, acc.ctx.y + acc.ctx.height - PADDING)

\* One iteration of "for context in contexts" (agent.py:666-732).
adjust_context(items, box_idx) ==
    LET with_children(context, children) ==
            IF children = << >> THEN items
            ELSE place_detached(items, box_idx,
                     check_children(items, children, 1,
                         context.x + context.width, context.y + context.height,
                         [ctx |-> [x |-> context.x, y |-> context.y,
                                   width |-> context.width, height |-> context.height],
                          detached |-> << >>]))
    IN  with_children(items[box_idx], children_of(items, items[box_idx].id, 1))

RECURSIVE adjust_contexts(_, _)
adjust_contexts(items, idx) ==
    IF idx > Len(items) THEN items
    ELSE adjust_contexts(
             IF items[idx].type = "ContextBox" THEN adjust_context(items, idx) ELSE items,
             idx + 1)

_adjust_board_layout(items) == adjust_contexts(items, 1)

----------------------------------------------------------------------------
\* _slugify(text): every character that is not alphanumeric becomes '-',
\* leading and trailing '-' are stripped, the rest is lower-cased; an empty
\* result becomes 'eventstorming-board' (agent.py:248-249).
ALNUM == "abcdefghijklmnopqrstuvwxyzABCDEFGHIJKLMNOPQRSTUVWXYZ0123456789"

is_alnum(c) == \E i \in 1..Len(ALNUM) : SubSeq(ALNUM, i, i) = c

RECURSIVE dashed(_)
dashed(text) ==
    IF text = "" THEN ""
    ELSE (IF is_alnum(SubSeq(text, 1, 1)) THEN SubSeq(text, 1, 1) ELSE "-")
         \o dashed(SubSeq(text, 2, Len(text)))

RECURSIVE strip_dashes(_)
strip_dashes(text) ==
    IF text = "" THEN ""
    ELSE IF SubSeq(text, 1, 1) = "-" THEN strip_dashes(SubSeq(text, 2, Len(text)))
    ELSE IF SubSeq(text, Len(text), Len(text)) = "-"
         THEN strip_dashes(SubSeq(text, 1, Len(text) - 1))
    ELSE text

RECURSIVE lower(_)
lower(text) ==
    IF text = "" THEN ""
    ELSE lower_char(SubSeq(text, 1, 1)) \o lower(SubSeq(text, 2, Len(text)))

_slugify(text) ==
    LET slug == lower(strip_dashes(dashed(text)))
    IN  IF slug = "" THEN "eventstorming-board" ELSE slug

\* The items with their producesEventId (agent.py:552-580), given the state
\* the loop over the contexts left.
merged_items(st) ==
    resolve_produces(st.items, st.name_to_id_map, st.item_context_map)

\* The items as they stand when step 8 begins (agent.py:291-581).
items_before_repair(model, existing) == merged_items(merge_stage(model, existing))

\* The returned board (agent.py:533-590), given the state the loop over the
\* contexts left.
returned_board(model, st) ==
    [boardType |-> "Eventstorming",
     instanceName |-> _slugify(model.project_name),
     items |-> _adjust_board_layout(merged_items(st)),
     connections |-> resolve_connections(model.connections, 1,
                         st.name_to_id_map, st.item_context_map)]

\* _create_eventstorming_board(description, concepts, existing_board), for
\* concepts that are not None (agent.py:291-590).
_create_eventstorming_board(model, existing) ==
    returned_board(model, merge_stage(model, existing))

----------------------------------------------------------------------------
\* The concept models the generator hands over, and the user's drags.

Item(name, description) ==
    [name |-> name, description |-> description, produced_event_name |-> "",
     fields |-> << >>]

PlaceOrder == [Item("PlaceOrder", "Places an order for the items of a shopping cart.")
                  EXCEPT !.produced_event_name = "OrderPlaced"]
SendReceipt == Item("SendReceipt", "")
PayInvoice == Item("PayInvoice", "")
RefundInvoice == [Item("RefundInvoice", "") EXCEPT !.produced_event_name = "InvoicePaid"]
Order == Item("Order", "")
Purchase == Item("Purchase", "")
OrderPlaced == Item("OrderPlaced", "")
ReceiptSent == Item("ReceiptSent", "")
InvoicePaid == Item("InvoicePaid", "")
OrderSummary == [Item("OrderSummary", "") EXCEPT !.fields = <<"total", "status">>]
CancelOrder == Item("Cancel Order", "")
OrderCancelled == Item("Order Cancelled", "")

Context(name, commands, policies, aggregates, events, readModels) ==
    [name |-> name, description |-> "",
     commands |-> commands, policies |-> policies, aggregates |-> aggregates,
     events |-> events, readModels |-> readModels]

SalesA == Context("Sales", <<PlaceOrder>>, << >>, <<Order>>, <<OrderPlaced>>, << >>)
\* Sales after an edit: the command turned into a policy, a policy, an event
\* and a read model added, the aggregate renamed.
SalesB == Context("Sales", << >>, <<PlaceOrder, SendReceipt>>, <<Purchase>>,
                  <<OrderPlaced, ReceiptSent>>, <<OrderSummary>>)
\* Billing has an aggregate of the same name as Sales's.
BillingA == Context("Billing", << >>, << >>, <<Order>>, <<InvoicePaid>>, << >>)
\* Billing after an edit: a left column appears and is the tallest column.
BillingB == Context("Billing", <<PayInvoice, RefundInvoice>>, << >>, <<Order>>,
                    <<InvoicePaid>>, << >>)
Audit == Context("Audit", << >>, << >>, << >>, << >>, << >>)
\* Support and Returns have a command of the same name; only Support has the
\* event it produces.
Support == Context("Support", <<CancelOrder>>, << >>, << >>, <<OrderCancelled>>, << >>)
Returns == Context("Returns", <<CancelOrder>>, << >>, << >>, << >>, << >>)

Connection(from_name, to_name, type) ==
    [from_name |-> from_name, to_name |-> to_name, type |-> type]

Concepts(contexts, connections) ==
    [project_name |-> "Shop Orders", contexts |-> contexts, connections |-> connections]

Models ==
    { Concepts(<<SalesA>>, << >>),
      Concepts(<<SalesB>>, <<Connection("OrderPlaced", "OrderSummary", "RequestResponse")>>),
      Concepts(<<SalesA, BillingA>>,
               <<Connection("OrderPlaced", "PayInvoice", "Flow"),
                 Connection("PlaceOrder", "InvoicePaid", "Flow"),
                 Connection("OrderPlaced", "Order", "Flow")>>),
      Concepts(<<SalesA, BillingB>>,
               <<Connection("OrderPlaced", "PayInvoice", "Flow"),
                 Connection("InvoicePaid", "Order", "Flow")>>),
      Concepts(<<BillingB, SalesB>>,
               <<Connection("InvoicePaid", "SendReceipt", "Flow"),
                 Connection("OrderPlaced", "PayInvoice", "Flow")>>),
      Concepts(<<Audit, SalesA>>, << >>),
      Concepts(<<Support, Returns>>, << >>) }

\* A drag moves one item by one of these offsets.
Drags == { <<0 - 50, 0>>, <<0 - 60, 0>>, <<40, 0>>, <<0, 0 - 70>>, <<0, 600>> }

----------------------------------------------------------------------------
\* No layout run yet.
NoRun ==
    /\ board = NoBoard
    /\ concepts = NoConcepts
    /\ existing_board = NoBoard
    /\ lastOp = "none"
    /\ relayout = FALSE
    /\ runs = 0
    /\ drags = 0

\* No call of compute_item_dimensions on its own.
NoArgs == [item_type |-> "", data |-> [name |-> "", description |-> "", attributes |-> << >>]]
NoResult == <<0, 0>>
NoDimCall == dim_args = NoArgs /\ dim_result = NoResult

\* No call of _normalize_generated_payload on its own.
NoPayload == [t |-> "none"]
NoNormalizerCall == payload = NoPayload /\ normalized = NoPayload

\* No call of EventstormingAgent.ainvoke followed step by step.
NoAgentCall ==
    /\ agent_pc = "idle"
    /\ attempts = 0
    /\ responses = << >>
    /\ generated = NoConcepts
    /\ layout_calls = 0

Init ==
    /\ NoRun
    /\ NoDimCall
    /\ NoNormalizerCall
    /\ NoAgentCall

\* A layout run: the generator produced model, and the persisted board is
\* passed as existing_board (None before the first run).
Layout(model) ==
    /\ runs < MaxRuns
    /\ board' = _create_eventstorming_board(model, board)
    /\ concepts' = model
    /\ existing_board' = board
    /\ relayout' = (lastOp = "layout" /\ concepts = model)
    /\ lastOp' = "layout"
    /\ runs' = runs + 1
    /\ UNCHANGED drags
    /\ UNCHANGED <<dimVars, normVars, agentVars>>

\* The user drags item i of the persisted board.
Drag(i, d) ==
    /\ lastOp # "none"
    /\ runs < MaxRuns
    /\ drags < MaxDrags
    /\ board' = [board EXCEPT !.items[i].x = @ + d[1], !.items[i].y = @ + d[2]]
    /\ lastOp' = "drag"
    /\ drags' = drags + 1
    /\ UNCHANGED <<concepts, existing_board, relayout, runs>>
    /\ UNCHANGED <<dimVars, normVars, agentVars>>

Next ==
    \/ \E model \in Models : Layout(model)
    \/ \E i \in DOMAIN board.items, d \in Drags : Drag(i, d)

Spec == Init /\ [][Next]_vars

----------------------------------------------------------------------------
\* compute_item_dimensions on its own: one call with arguments drawn from
\* the bounds below.  A name or description of n characters and a list of n
\* attributes are all the function reads of them (len).
MaxNameLen == 60
MaxDescriptionLen == 200
MaxFields == 30

DimKinds == {"Command", "Policy", "Aggregate", "Event", "ReadModel"}
NameLens == {0, 1, 7, 10, 13, 14, 35, 36, MaxNameLen}
DescriptionLens == {0, 1, 39, 40, 79, 80, 120, MaxDescriptionLen}
FieldCounts == {0, 1, 13, 14, MaxFields}

Chars(n) == [i \in 1..n |-> "a"]
Fields(n) == [i \in 1..n |-> [name |-> "f", type |-> "String"]]

DimArgs ==
    {[item_type |-> k,
      data |-> [name |-> Chars(n), description |-> Chars(d), attributes |-> Fields(f)]] :
        k \in DimKinds, n \in NameLens, d \in DescriptionLens, f \in FieldCounts}

DimInit ==
    /\ NoRun
    /\ NoNormalizerCall
    /\ NoAgentCall
    /\ dim_args \in DimArgs
    /\ dim_result = NoResult

ComputeItemDimensions ==
    /\ dim_result = NoResult
    /\ dim_result' = compute_item_dimensions(dim_args.item_type, dim_args.data)
    /\ UNCHANGED <<dim_args, layoutVars, normVars, agentVars>>

DimNext == ComputeItemDimensions

DimSpec == DimInit /\ [][DimNext]_vars

----------------------------------------------------------------------------
\* _normalize_generated_payload on its own: one call with a payload drawn
\* from the pool below.
\* Stands for a key left out of a dict of the pool.
Absent == [t |-> "absent"]
EmptyDict == [k \in {} |-> Null]
with(d, k, v) == IF v.t = "absent" THEN d ELSE put(d, k, v)

JsonItem(name) == Dict(with(with(EmptyDict, "name", Str(name)), "description", Str("")))

\* A context with all its keys, one with collections that are absent, null
\* or not lists, and one with no key at all.
CtxFull ==
    Dict(with(with(with(with(with(with(with(EmptyDict,
        "name", Str("Sales")), "description", Str("Orders")),
        "events", List(<<JsonItem("OrderPlaced")>>)),
        "commands", List(<<JsonItem("PlaceOrder")>>)),
        "policies", List(<< >>)),
        "aggregates", List(<<JsonItem("Order")>>)),
        "readModels", List(<< >>)))
CtxLoose ==
    Dict(with(with(with(with(with(EmptyDict,
        "name", Null), "description", Str("")),
        "events", Null),
        "commands", JsonItem("PayInvoice")),
        "policies", Str("NotifyCustomer")))
CtxBare == Dict(EmptyDict)

ContextsPool ==
    { Absent, Null, Str("Sales"), CtxLoose, List(<< >>), List(<<CtxFull>>),
      List(<<CtxLoose, CtxFull>>),
      List(<<Str("junk"), CtxBare, Null, CtxFull>>) }

JsonConnection(type) ==
    Dict(with(with(with(EmptyDict, "from_name", Str("OrderPlaced")),
                   "to_name", Str("PayInvoice")), "type", type))

ConnectionsPool ==
    { Absent, Null, JsonConnection(Absent), List(<< >>),
      List(<<JsonConnection(Str("Flow")), JsonConnection(Absent)>>),
      List(<<JsonConnection(Str("RequestResponse"))>>),
      List(<<JsonConnection(Null), Str("junk"), JsonConnection(Str(""))>>) }

ProjectNamesPool == { Absent, Null, Str(""), Str("Shop Orders") }

Payloads ==
    { Null, Str("not json"), List(<<CtxFull>>) }
    \cup { Dict(with(with(with(EmptyDict, "project_name", pn), "contexts", cx),
                   "connections", cn)) :
              pn \in ProjectNamesPool, cx \in ContextsPool, cn \in ConnectionsPool }

NormInit ==
    /\ NoRun
    /\ NoDimCall
    /\ NoAgentCall
    /\ payload \in Payloads
    /\ normalized = NoPayload

NormalizeGeneratedPayload ==
    /\ normalized = NoPayload
    /\ normalized' = _normalize_generated_payload(payload)
    /\ UNCHANGED <<payload, layoutVars, dimVars, agentVars>>

NormNext == NormalizeGeneratedPayload

NormSpec == NormInit /\ [][NormNext]_vars

----------------------------------------------------------------------------
\* EventstormingAgent.ainvoke step by step (agent.py:220-245, 740-764): the
\* generator is asked, each call ending with concepts that parse and
\* validate or with one of the exceptions the loop catches.
MAX_ATTEMPTS == 3

\* What a generator call ends with.
Failures == {"JSONDecodeError", "ValidationError", "Exception"}
Outcomes ==
    {[kind |-> f, concepts |-> NoConcepts] : f \in Failures}
    \cup {[kind |-> "concepts", concepts |-> model] : model \in Models}

\* The board returned when the generator gave no concepts (agent.py:748-759).
ErrorBoard ==
    [boardType |-> "Eventstorming",
     instanceName |-> "error-board",
     items |-> << [id |-> 1, type |-> "Error",
                   instanceName |-> "Failed to generate concepts",
                   description |-> "The language model failed to produce a valid set of domain concepts after multiple retries."] >>,
     connections |-> << >>]

\* "for i in range(3)" with one attempt more.
loop_continues_once_more(i) == i <= MAX_ATTEMPTS

\* "for i in range(3)": the loop body runs for i.
loop_continues(i) == i < MAX_ATTEMPTS

AgentInit ==
    /\ NoRun
    /\ NoDimCall
    /\ NoNormalizerCall
    /\ agent_pc = "generating"
    /\ attempts = 0
    /\ responses = << >>
    /\ generated = NoConcepts
    /\ layout_calls = 0

\* One iteration of the loop of _generate_eventstorming_concepts
\* (agent.py:220-243): the response parses and validates and the concepts
\* are returned, or an exception is caught and the loop sleeps and goes on.
AskGenerator(outcome) ==
    /\ agent_pc = "generating"
    /\ loop_continues(attempts)
    /\ responses' = Append(responses, outcome.kind)
    /\ attempts' = attempts + 1
    /\ IF outcome.kind = "concepts"
       THEN generated' = outcome.concepts /\ agent_pc' = "generated"
       ELSE generated' = generated /\ agent_pc' = "generating"
    /\ UNCHANGED <<layout_calls, layoutVars, dimVars, normVars>>

\* The loop is over, None is returned and ainvoke returns the error board
\* (agent.py:245, 748-759).
ReturnErrorBoard ==
    /\ agent_pc = "generating"
    /\ ~loop_continues(attempts)
    /\ board' = ErrorBoard
    /\ agent_pc' = "returned"
    /\ UNCHANGED <<concepts, existing_board, lastOp, relayout, runs, drags>>
    /\ UNCHANGED <<attempts, responses, generated, layout_calls, dimVars, normVars>>

\* ainvoke builds the board from the concepts (agent.py:760-764).
CreateBoard ==
    /\ agent_pc = "generated"
    /\ board' = _create_eventstorming_board(generated, existing_board)
    /\ concepts' = generated
    /\ layout_calls' = layout_calls + 1
    /\ agent_pc' = "returned"
    /\ UNCHANGED <<existing_board, lastOp, relayout, runs, drags>>
    /\ UNCHANGED <<attempts, responses, generated, dimVars, normVars>>

AgentNext ==
    \/ \E outcome \in Outcomes : AskGenerator(outcome)
    \/ ReturnErrorBoard
    \/ CreateBoard

\* ENABLED <<AgentNext>>_vars, from the guards of the three actions: the
\* call has not returned (each step changes attempts or agent_pc).
AgentRunning == agent_pc \in {"generating", "generated"}

\* WF_vars(AgentNext) with its enabling condition written out: the event
\* loop resumes the coroutine after each await, and each generator call
\* ends, with a response or with an exception.
AgentFairness == []<>(~AgentRunning) \/ []<><<AgentNext>>_vars

AgentSpec == AgentInit /\ [][AgentNext]_vars /\ AgentFairness

----------------------------------------------------------------------------
\* Vocabulary of the properties.  They are stated on the state a layout run
\* leaves: board is what the run returned, concepts and existing_board are
\* what it was given.

Returned == lastOp = "layout"

IsBox(item) == item.type = "ContextBox"

KeyOf(item) == <<item.type, item.instanceName>>

\* The rectangle of a lies inside the rectangle of b, edges included.
Inside(a, b) ==
    /\ b.x <= a.x /\ a.x + a.width <= b.x + b.width
    /\ b.y <= a.y /\ a.y + a.height <= b.y + b.height

\* The rectangle at (x, y) of size (w, h) and the rectangle of b share a point.
Touches(x, y, w, h, b) ==
    /\ x + w >= b.x /\ x <= b.x + b.width
    /\ y + h >= b.y /\ y <= b.y + b.height

ColumnNameOf(item_type) ==
    CASE item_type \in {"Command", "Policy"} -> "left"
      [] item_type = "Aggregate" -> "center"
      [] item_type \in {"Event", "ReadModel"} -> "right"

ColumnOf(context, item_type) ==
    CASE ColumnNameOf(item_type) = "left" -> left_column(context)
      [] ColumnNameOf(item_type) = "center" -> center_column(context)
      [] ColumnNameOf(item_type) = "right" -> right_column(context)

\* Items keep their list position through connections, producesEventId and
\* repair, so position i names the same item in every stage of one run.
\* BoxPos: the position of the ContextBox that precedes item i.
BoxPos(items, i) == CHOOSE b \in 1..i : IsBox(items[b]) /\ \A j \in (b + 1)..i : ~IsBox(items[j])

\* The context of the model that item i was made from.
ContextAt(items, i) == concepts.contexts[Cardinality({j \in 1..i : IsBox(items[j])})]

\* How many items of i's column precede i in its context.
RankAt(items, i) ==
    Cardinality({j \in (BoxPos(items, i) + 1)..(i - 1) :
                    ColumnNameOf(items[j].type) = ColumnNameOf(items[i].type)})

RECURSIVE HeightsBefore(_, _)
HeightsBefore(column, n) ==
    IF n = 0 THEN 0
    ELSE HeightsBefore(column, n - 1) + column[n].dimensions[2] + ITEM_V_GAP

\* The ideal position of item i: the column packer's values, relative to the
\* origin the merge gave the item's ContextBox (m is the merged item list).
IdealX(m, i) ==
    m[BoxPos(m, i)].x + column_x_position(ContextAt(m, i), ColumnNameOf(m[i].type))

IdealY(m, i) ==
    LET context == ContextAt(m, i)
        column == ColumnOf(context, m[i].type)
    IN  m[BoxPos(m, i)].y + PADDING
        + ((inner_height(context) - column_stats(column).height) \div 2)
        + HeightsBefore(column, RankAt(m, i))

\* The ideal x of the ContextBox at position b: the left-to-right packed offset.
RECURSIVE PackedOffset(_, _)
PackedOffset(contexts, n) ==
    IF n = 0 THEN PADDING
    ELSE PackedOffset(contexts, n - 1) + context_width(contexts[n]) + CONTEXT_H_GAP

IdealBoxX(m, b) ==
    PackedOffset(concepts.contexts, Cardinality({j \in 1..b : IsBox(m[j])}) - 1)

PairwiseDistinctIds(items) ==
    \A i, j \in DOMAIN items : i # j => items[i].id # items[j].id

\* Item names are unique within each context and context names are unique.
ModelNamesUnique(model) ==
    /\ \A c, d \in DOMAIN model.contexts :
          c # d => model.contexts[c].name # model.contexts[d].name
    /\ \A c \in DOMAIN model.contexts :
          LET all == model.contexts[c].commands \o model.contexts[c].policies
                     \o model.contexts[c].aggregates \o model.contexts[c].events
                     \o model.contexts[c].readModels
          IN  \A i, j \in DOMAIN all : i # j => all[i].name # all[j].name

\* The name of the context an item of a board belongs to ("" for a box).
OwnerName(items, i) == IF IsBox(items[i]) THEN "" ELSE items[BoxPos(items, i)].instanceName

\* No two items of the list have the same (type, name) key, so that the
\* prior item matched by a key is unambiguous.
KeysUnique(items) ==
    \A p, q \in DOMAIN items : KeyOf(items[p]) = KeyOf(items[q]) => p = q

CenterOrRight(item) == item.type \in {"Aggregate", "Event", "ReadModel"}
LeftColumn(item) == item.type \in {"Command", "Policy"}

----------------------------------------------------------------------------
\* C1: in every board a layout run returns, each non-ContextBox item has a
\* ContextBox whose id is the item's parent, and the item's rectangle lies
\* fully inside that box's rectangle.
C1_Containment ==
    Returned =>
        \A i \in DOMAIN board.items :
            ~IsBox(board.items[i]) =>
                /\ \E b \in DOMAIN board.items :
                      IsBox(board.items[b]) /\ board.items[b].id = board.items[i].parent
                /\ \A b \in DOMAIN board.items :
                      (IsBox(board.items[b]) /\ board.items[b].id = board.items[i].parent)
                          => Inside(board.items[i], board.items[b])

\* A run whose merged items violated containment before repair: some item
\* stuck out of, or lay wholly outside, its box.
C1_Witness ==
    /\ Returned
    /\ LET m == items_before_repair(concepts, existing_board)
       IN  \E i \in DOMAIN m : ~IsBox(m[i]) /\ ~Inside(m[i], m[BoxPos(m, i)])

\* C2: the ids of a returned board are pairwise distinct whenever the model's
\* item names are unique within each context, its context names are unique,
\* and the ids of the prior board are pairwise distinct.
C2_UniqueIds ==
    (Returned /\ ModelNamesUnique(concepts) /\ PairwiseDistinctIds(existing_board.items))
        => PairwiseDistinctIds(board.items)

\* C3: repairing the repaired items of a returned board again changes nothing.
C3_RepairIdempotent ==
    Returned => _adjust_board_layout(board.items) = board.items

\* A run in which the first repair did change the merged items.
C3_Witness ==
    /\ Returned
    /\ board.items # items_before_repair(concepts, existing_board)
    /\ \E i \in DOMAIN board.items : ~IsBox(board.items[i])

C5_CollapseSelfHeal ==
    Returned =>
        LET m == items_before_repair(concepts, existing_board)
            eim == existing_items_map(existing_board)
        IN  \A i \in DOMAIN board.items :
                (/\ CenterOrRight(board.items[i])
                 /\ KeyOf(board.items[i]) \in DOMAIN eim
                 /\ eim[KeyOf(board.items[i])].x < IdealX(m, i) - COLLAPSE_THRESHOLD)
                => /\ board.items[i].x = IdealX(m, i)
                   /\ board.items[i].y = IdealY(m, i)
                   /\ board.items[i].id = eim[KeyOf(board.items[i])].id

\* A collapsed center-column item whose prior y differs from its ideal y.
C5_Witness ==
    /\ Returned
    /\ LET m == items_before_repair(concepts, existing_board)
           eim == existing_items_map(existing_board)
       IN  \E i \in DOMAIN board.items :
               /\ board.items[i].type = "Aggregate"
               /\ KeyOf(board.items[i]) \in DOMAIN eim
               /\ eim[KeyOf(board.items[i])].x < IdealX(m, i) - COLLAPSE_THRESHOLD
               /\ eim[KeyOf(board.items[i])].y # IdealY(m, i)
               /\ board.items[i].y = IdealY(m, i)

C7_Original ==
    Returned =>
        LET m == items_before_repair(concepts, existing_board)
            eim == existing_items_map(existing_board)
        IN  \A b \in DOMAIN m :
                (IsBox(m[b]) /\ KeyOf(m[b]) \in DOMAIN eim)
                => IF eim[KeyOf(m[b])].x < IdealBoxX(m, b) - COLLAPSE_THRESHOLD
                   THEN m[b].x = IdealBoxX(m, b) /\ m[b].y = PADDING
                   ELSE m[b].x = eim[KeyOf(m[b])].x /\ m[b].y = eim[KeyOf(m[b])].y

\* The least of x0 and the values of field f ("x" or "y") of the children of
\* the box at position b.
LeastWithChildren(items, b, x0, f) ==
    LET vals == {x0} \cup { items[i][f] : i \in {j \in DOMAIN items :
                                items[j].parent = items[b].id /\ ~IsBox(items[j])} }
    IN  CHOOSE v \in vals : \A w \in vals : v <= w

\* C7 (amended): collapse detection does not apply to ContextBoxes.  The
\* merge places a matched ContextBox at its prior x/y however far left of
\* its ideal x that is; in the returned board its origin is the prior one,
\* moved left/up by Containment Repair exactly as far as its leftmost/topmost
\* child reaches.
C7_ContextBoxKept ==
    Returned =>
        LET m == items_before_repair(concepts, existing_board)
            eim == existing_items_map(existing_board)
        IN  \A b \in DOMAIN m :
                (IsBox(m[b]) /\ KeyOf(m[b]) \in DOMAIN eim)
                => /\ m[b].x = eim[KeyOf(m[b])].x
                   /\ m[b].y = eim[KeyOf(m[b])].y
                   /\ board.items[b].x = LeastWithChildren(board.items, b, m[b].x, "x")
                   /\ board.items[b].y = LeastWithChildren(board.items, b, m[b].y, "y")

\* A matched ContextBox whose prior x is more than 50 left of its ideal x.
C7_Witness ==
    /\ Returned
    /\ LET m == items_before_repair(concepts, existing_board)
           eim == existing_items_map(existing_board)
       IN  \E b \in DOMAIN m :
               /\ IsBox(m[b]) /\ KeyOf(m[b]) \in DOMAIN eim
               /\ eim[KeyOf(m[b])].x < IdealBoxX(m, b) - COLLAPSE_THRESHOLD
               /\ board.items[b].x = eim[KeyOf(m[b])].x

\* C8: an item (same context, type and name; a ContextBox by its name) that
\* is in the prior board and in the model carries its prior id in the
\* returned board, so that it keeps one id over any sequence of runs.
C8_IdStability ==
    Returned =>
        \A i \in DOMAIN board.items, p \in DOMAIN existing_board.items :
            (/\ KeyOf(board.items[i]) = KeyOf(existing_board.items[p])
             /\ OwnerName(board.items, i) = OwnerName(existing_board.items, p))
            => board.items[i].id = existing_board.items[p].id

\* C9: an item whose (type, name) is not in the prior board gets an id
\* greater than every id of the prior board, and the ids given to such items
\* in one run increase strictly in list order.
C9_FreshIds ==
    Returned =>
        LET eim == existing_items_map(existing_board)
            fresh == {i \in DOMAIN board.items : KeyOf(board.items[i]) \notin DOMAIN eim}
        IN  /\ \A i \in fresh, p \in DOMAIN existing_board.items :
                  board.items[i].id > existing_board.items[p].id
            /\ \A i, j \in fresh : i < j => board.items[i].id < board.items[j].id

\* A run with two new items, one of them under a name the prior board has
\* for another type, against a prior board that holds an item no longer in
\* the model whose id is the prior board's greatest.
C9_Witness ==
    /\ Returned
    /\ LET eim == existing_items_map(existing_board)
           fresh == {i \in DOMAIN board.items : KeyOf(board.items[i]) \notin DOMAIN eim}
       IN  /\ Cardinality(fresh) >= 2
           /\ \E i \in fresh, p \in DOMAIN existing_board.items :
                 /\ existing_board.items[p].instanceName = board.items[i].instanceName
                 /\ existing_board.items[p].type # board.items[i].type
           /\ \E p \in DOMAIN existing_board.items :
                 /\ \A i \in DOMAIN board.items : KeyOf(board.items[i]) # KeyOf(existing_board.items[p])
                 /\ \A q \in DOMAIN existing_board.items :
                       existing_board.items[q].id <= existing_board.items[p].id

\* C10: a run with the model of the run before it, against exactly the board
\* that run returned, returns every item with the same id, x, y, width and
\* height.  (Read for boards whose (type, name) keys are pairwise distinct.)
C10_RelayoutStable ==
    (Returned /\ relayout /\ KeysUnique(existing_board.items) /\ KeysUnique(board.items)) =>
        /\ Len(board.items) = Len(existing_board.items)
        /\ \A i \in DOMAIN board.items :
              /\ board.items[i].id = existing_board.items[i].id
              /\ board.items[i].x = existing_board.items[i].x
              /\ board.items[i].y = existing_board.items[i].y
              /\ board.items[i].width = existing_board.items[i].width
              /\ board.items[i].height = existing_board.items[i].height

----------------------------------------------------------------------------
\* Vocabulary of the connection properties.

\* The items a context of the model declares, as <<type, name>> pairs.
DeclaredIn(context) ==
    {<<"Command", context.commands[i].name>> : i \in DOMAIN context.commands}
    \cup {<<"Policy", context.policies[i].name>> : i \in DOMAIN context.policies}
    \cup {<<"Aggregate", context.aggregates[i].name>> : i \in DOMAIN context.aggregates}
    \cup {<<"Event", context.events[i].name>> : i \in DOMAIN context.events}
    \cup {<<"ReadModel", context.readModels[i].name>> : i \in DOMAIN context.readModels}

\* The types under which the model declares an item of the name.
DeclaredTypes(model, name) ==
    {d[1] : d \in {e \in UNION {DeclaredIn(model.contexts[c]) : c \in DOMAIN model.contexts} :
                      e[2] = name}}

\* Every ConnectionSpec of the model leads from a name only Events have to a
\* name only Commands, Policies or ReadModels have.
SpecsWellKinded(model) ==
    \A k \in DOMAIN model.connections :
        /\ DeclaredTypes(model, model.connections[k].from_name) \subseteq {"Event"}
        /\ DeclaredTypes(model, model.connections[k].to_name)
               \subseteq {"Command", "Policy", "ReadModel"}

\* Every connection of the board leads from Events to Commands, Policies or
\* ReadModels.
ConnectionsWellKinded ==
    \A k \in DOMAIN board.connections, i \in DOMAIN board.items :
        /\ board.items[i].id = board.connections[k].from
              => board.items[i].type = "Event"
        /\ board.items[i].id = board.connections[k].to
              => board.items[i].type \in {"Command", "Policy", "ReadModel"}

\* C11 as claimed: in every returned board, whatever ConnectionSpecs the
\* model lists, each connection leads from an Event to a Command, Policy or
\* ReadModel.
C11_Original == Returned => ConnectionsWellKinded

\* C11 (amended): the resolver does not check the kinds; each connection of
\* a returned board leads from an Event to a Command, Policy or ReadModel
\* when every ConnectionSpec of the model leads from a name that only Events
\* have to a name that only Commands, Policies or ReadModels have.
C11_ConnectionValidity == (Returned /\ SpecsWellKinded(concepts)) => ConnectionsWellKinded

\* A returned board with a connection, for a model of well-kinded specs.
C11_Witness ==
    /\ Returned /\ SpecsWellKinded(concepts)
    /\ board.connections # << >>
    /\ \E k \in DOMAIN board.connections, i, j \in DOMAIN board.items :
          /\ board.items[i].id = board.connections[k].from
          /\ board.items[j].id = board.connections[k].to

\* C12: no connection of a returned board has a 'from' item and a 'to' item
\* with the same parent ContextBox.
C12_NoSameContextConnection ==
    Returned =>
        \A k \in DOMAIN board.connections, i, j \in DOMAIN board.items :
            (/\ board.items[i].id = board.connections[k].from
             /\ board.items[j].id = board.connections[k].to)
            => board.items[i].parent # board.items[j].parent

\* The contexts of the model (positions) that declare an item of the name.
DeclaringContexts(model, name) ==
    {c \in DOMAIN model.contexts : \E d \in DeclaredIn(model.contexts[c]) : d[2] = name}

\* An item named from_name and an item named to_name exist in two different
\* contexts of the model.
InTwoContexts(model, spec) ==
    \E c \in DeclaringContexts(model, spec.from_name),
       d \in DeclaringContexts(model, spec.to_name) : c # d

\* The position of the last non-ContextBox item of the name, 0 if there is none.
LastNamed(items, name) ==
    LET at == {i \in DOMAIN items : ~IsBox(items[i]) /\ items[i].instanceName = name}
    IN  IF at = {} THEN 0 ELSE CHOOSE i \in at : \A j \in at : j <= i

\* The connection a spec stands for, between the items at positions i and j.
ConnectionOf(items, spec, i, j) ==
    [id |-> "conn-" \o ToString(items[i].id) \o "-" \o ToString(items[j].id),
     from |-> items[i].id, to |-> items[j].id, type |-> spec.type]

\* C13 as claimed: the connections of a returned board are, in the order of
\* the specs, one connection for each ConnectionSpec whose names are those
\* of two items in different contexts, between two such items.
C13_Original ==
    Returned =>
        LET specs == SelectSeq(concepts.connections,
                               LAMBDA spec : InTwoContexts(concepts, spec))
        IN  /\ Len(board.connections) = Len(specs)
            /\ \A k \in DOMAIN specs :
                  k <= Len(board.connections) =>
                  \E i, j \in DOMAIN board.items :
                      /\ ~IsBox(board.items[i]) /\ ~IsBox(board.items[j])
                      /\ board.items[i].instanceName = specs[k].from_name
                      /\ board.items[j].instanceName = specs[k].to_name
                      /\ BoxPos(board.items, i) # BoxPos(board.items, j)
                      /\ board.connections[k] = ConnectionOf(board.items, specs[k], i, j)

\* The last item of each name of the spec exists, and the two are in
\* different ContextBoxes.
LastInTwoContexts(items, spec) ==
    /\ LastNamed(items, spec.from_name) # 0
    /\ LastNamed(items, spec.to_name) # 0
    /\ BoxPos(items, LastNamed(items, spec.from_name))
          # BoxPos(items, LastNamed(items, spec.to_name))

\* What the resolver does with a name several items carry: the name stands
\* for the item placed last under it.  The connections of a returned board
\* are, in the order of the specs, exactly one connection for each
\* ConnectionSpec whose two names stand for items of different contexts.
ConnectionsOfLastNamed ==
    Returned =>
        LET specs == SelectSeq(concepts.connections,
                               LAMBDA spec : LastInTwoContexts(board.items, spec))
        IN  board.connections =
                [k \in DOMAIN specs |->
                    ConnectionOf(board.items, specs[k],
                                 LastNamed(board.items, specs[k].from_name),
                                 LastNamed(board.items, specs[k].to_name))]

\* Both names of the spec are names of items of the model.
Resolvable(model, spec) ==
    /\ DeclaringContexts(model, spec.from_name) # {}
    /\ DeclaringContexts(model, spec.to_name) # {}

\* The model without the ConnectionSpecs that name an item it does not have.
WithoutUnresolved(model) ==
    [model EXCEPT !.connections =
        SelectSeq(model.connections, LAMBDA spec : Resolvable(model, spec))]

\* C14: a ConnectionSpec naming an item that is not in the model yields no
\* connection, and the returned board, items and connections alike, is the
\* board the same model yields with the unresolved specs removed.
C14_UnresolvedDropped ==
    Returned =>
        /\ \A k \in DOMAIN concepts.connections :
              ~Resolvable(concepts, concepts.connections[k]) =>
                  \A c \in DOMAIN board.connections :
                      \A i, j \in DOMAIN board.items :
                          ~(/\ board.items[i].id = board.connections[c].from
                            /\ board.items[j].id = board.connections[c].to
                            /\ board.items[i].instanceName = concepts.connections[k].from_name
                            /\ board.items[j].instanceName = concepts.connections[k].to_name)
        /\ board = _create_eventstorming_board(WithoutUnresolved(concepts), existing_board)

\* A returned board of a model whose first ConnectionSpec is unresolved and
\* whose later specs gave connections.
C14_Witness ==
    /\ Returned
    /\ Len(concepts.connections) >= 2
    /\ ~Resolvable(concepts, concepts.connections[1])
    /\ Len(board.connections) >= 1
    /\ \A i \in DOMAIN concepts.contexts :
          \E j \in DOMAIN board.items :
              IsBox(board.items[j]) /\ board.items[j].instanceName = concepts.contexts[i].name

-----------------------------------------------------------------------------
\* Vocabulary of the produced-event properties.

\* The produced event name the model declares for the Command or Policy at
\* position i, "" for none.
ProducedNameAt(items, i) ==
    LET context == ContextAt(items, i)
        list == IF items[i].type = "Command" THEN context.commands ELSE context.policies
    IN  list[CHOOSE k \in DOMAIN list : list[k].name = items[i].instanceName].produced_event_name

\* C15: a Command or Policy with a declared produced event name carries the
\* id of the Event of that name as producesEventId when the model has such
\* an Event, and no producesEventId when it has none.
C15_ExplicitProducedEvent ==
    Returned =>
        \A i \in DOMAIN board.items :
            (/\ LeftColumn(board.items[i])
             /\ ProducedNameAt(board.items, i) # "")
            => IF "Event" \in DeclaredTypes(concepts, ProducedNameAt(board.items, i))
               THEN \E j \in DOMAIN board.items :
                       /\ board.items[j].type = "Event"
                       /\ board.items[j].instanceName = ProducedNameAt(board.items, i)
                       /\ board.items[i].producesEventId = board.items[j].id
               ELSE board.items[i].producesEventId = 0

\* The name of the Command or Policy at position i and the name of the Event
\* at position j share a verb pair: the verb is in the one, the participle in
\* the other, both lower-cased with the spaces removed.
SharesVerbPair(items, i, j) ==
    \E p \in DOMAIN VERB_PAIRS :
        /\ contains(VERB_PAIRS[p][1], normalized_name(items[i].instanceName))
        /\ contains(VERB_PAIRS[p][2], normalized_name(items[j].instanceName))

\* The least element of a non-empty set of numbers.
Least(S) == CHOOSE v \in S : \A w \in S : v <= w

\* The positions of the Events of i's ContextBox that share a verb pair with
\* the item at position i.
MatchingEvents(items, i) ==
    {j \in DOMAIN items :
        /\ items[j].type = "Event"
        /\ BoxPos(items, j) = BoxPos(items, i)
        /\ SharesVerbPair(items, i, j)}

\* C16: a Command or Policy without a declared produced event carries as
\* producesEventId the id of the first Event of its own context that shares
\* a verb pair with it, and none when its context has no such Event; items
\* of the other kinds carry no producesEventId.
C16_FallbackHeuristic ==
    Returned =>
        \A i \in DOMAIN board.items :
            IF LeftColumn(board.items[i])
            THEN ProducedNameAt(board.items, i) = "" =>
                    IF MatchingEvents(board.items, i) = {}
                    THEN board.items[i].producesEventId = 0
                    ELSE board.items[i].producesEventId =
                            board.items[Least(MatchingEvents(board.items, i))].id
            ELSE board.items[i].producesEventId = 0

-----------------------------------------------------------------------------
\* C17: referential integrity of a returned board.  The parent of each
\* non-ContextBox item is the id of the ContextBox of the context that
\* declares it; 'from' and 'to' of every connection and every producesEventId
\* are ids of non-ContextBox items of the board.
C17_ReferentialIntegrity ==
    Returned =>
        LET item_ids == {board.items[i].id : i \in {j \in DOMAIN board.items :
                                                       ~IsBox(board.items[j])}}
        IN  /\ \A i \in DOMAIN board.items :
                  ~IsBox(board.items[i]) =>
                      /\ board.items[i].parent = board.items[BoxPos(board.items, i)].id
                      /\ board.items[BoxPos(board.items, i)].instanceName
                            = ContextAt(board.items, i).name
            /\ \A k \in DOMAIN board.connections :
                  /\ board.connections[k].from \in item_ids
                  /\ board.connections[k].to \in item_ids
            /\ \A i \in DOMAIN board.items :
                  board.items[i].producesEventId # 0 =>
                      board.items[i].producesEventId \in item_ids

\* A returned board over a prior board, with items reused from it, a
\* connection and a producesEventId.
C17_Witness ==
    /\ Returned
    /\ existing_board # NoBoard
    /\ Len(board.connections) >= 1
    /\ \E i \in DOMAIN board.items : board.items[i].producesEventId # 0
    /\ \E i \in DOMAIN board.items, p \in DOMAIN existing_board.items :
          /\ ~IsBox(board.items[i])
          /\ KeyOf(board.items[i]) = KeyOf(existing_board.items[p])
          /\ board.items[i].id = existing_board.items[p].id
          /\ existing_board.items[p].parent # board.items[i].parent

-----------------------------------------------------------------------------
\* Vocabulary of the packing properties.

\* The rectangles of a and b have an inner point in common.
Overlap(a, b) ==
    /\ a.x < b.x + b.width /\ b.x < a.x + a.width
    /\ a.y < b.y + b.height /\ b.y < a.y + a.height

\* Positions i and j are items of one ContextBox.
SameBox(items, i, j) ==
    /\ ~IsBox(items[i]) /\ ~IsBox(items[j])
    /\ BoxPos(items, i) = BoxPos(items, j)

ColumnRank(name) == CASE name = "left" -> 1 [] name = "center" -> 2 [] name = "right" -> 3

ColumnRankAt(items, i) == ColumnRank(ColumnNameOf(items[i].type))

\* The right edge of the column of item i: the widest item of the column.
ColumnRight(items, i) ==
    LET rights == {items[j].x + items[j].width :
                      j \in {k \in DOMAIN items :
                                /\ SameBox(items, i, k)
                                /\ ColumnRankAt(items, k) = ColumnRankAt(items, i)}}
    IN  CHOOSE r \in rights : \A q \in rights : q <= r

\* j is in the column next to the right of i's column in their box.
NextColumn(items, i, j) ==
    /\ SameBox(items, i, j)
    /\ ColumnRankAt(items, i) < ColumnRankAt(items, j)
    /\ \A k \in DOMAIN items :
          SameBox(items, i, k) =>
              ~(/\ ColumnRankAt(items, i) < ColumnRankAt(items, k)
                /\ ColumnRankAt(items, k) < ColumnRankAt(items, j))

\* C19: in a board laid out with no prior board no two non-ContextBox items
\* overlap and no two ContextBoxes overlap: an item follows the item before
\* it in its column at the same x, ITEM_V_GAP below its bottom edge; a
\* column starts ITEM_H_GAP right of the column before it; a ContextBox
\* starts CONTEXT_H_GAP right of the right edge of the box before it, at the
\* same y.
C19_FreshPacking ==
    (Returned /\ existing_board = NoBoard) =>
        /\ \A i, j \in DOMAIN board.items :
              (i # j /\ IsBox(board.items[i]) = IsBox(board.items[j]))
              => ~Overlap(board.items[i], board.items[j])
        /\ \A i, j \in DOMAIN board.items :
              (/\ SameBox(board.items, i, j)
               /\ ColumnRankAt(board.items, i) = ColumnRankAt(board.items, j)
               /\ RankAt(board.items, j) = RankAt(board.items, i) + 1)
              => /\ board.items[j].x = board.items[i].x
                 /\ board.items[j].y
                       = board.items[i].y + board.items[i].height + ITEM_V_GAP
        /\ \A i, j \in DOMAIN board.items :
              NextColumn(board.items, i, j)
              => board.items[j].x = ColumnRight(board.items, i) + ITEM_H_GAP
        /\ \A i, j \in DOMAIN board.items :
              (/\ IsBox(board.items[i]) /\ IsBox(board.items[j]) /\ i < j
               /\ \A k \in (i + 1)..(j - 1) : ~IsBox(board.items[k]))
              => /\ board.items[j].x
                       = board.items[i].x + board.items[i].width + CONTEXT_H_GAP
                 /\ board.items[j].y = board.items[i].y

\* A board laid out with no prior board, with two ContextBoxes, a box of
\* three columns and a column of two items.
C19_Witness ==
    /\ Returned
    /\ existing_board = NoBoard
    /\ \E i, j \in DOMAIN board.items :
          i # j /\ IsBox(board.items[i]) /\ IsBox(board.items[j])
    /\ \E i, j, k \in DOMAIN board.items :
          /\ NextColumn(board.items, i, j) /\ NextColumn(board.items, j, k)
          /\ \E l \in DOMAIN board.items :
                /\ SameBox(board.items, i, l)
                /\ ColumnRankAt(board.items, l) = ColumnRankAt(board.items, i)
                /\ RankAt(board.items, l) = RankAt(board.items, i) + 1

\* C20: a freshly computed ContextBox (a board laid out with no prior board)
\* is as wide as the inner width plus twice PADDING and as high as the inner
\* height plus twice PADDING, and each of its children is at least PADDING
\* away from each of its four edges.
C20_BoxPadding ==
    (Returned /\ existing_board = NoBoard) =>
        /\ \A b \in DOMAIN board.items :
              IsBox(board.items[b]) =>
                  /\ board.items[b].width
                        = inner_width(ContextAt(board.items, b)) + (2 * PADDING)
                  /\ board.items[b].height
                        = inner_height(ContextAt(board.items, b)) + (2 * PADDING)
        /\ \A i \in DOMAIN board.items :
              ~IsBox(board.items[i]) =>
                  LET box == board.items[BoxPos(board.items, i)]
                      child == board.items[i]
                  IN  /\ box.x + PADDING <= child.x
                      /\ box.y + PADDING <= child.y
                      /\ child.x + child.width + PADDING <= box.x + box.width
                      /\ child.y + child.height + PADDING <= box.y + box.height

\* The width of the column of item i: the width of its widest item.
ColumnWidth(items, i) ==
    LET widths == {items[j].width :
                      j \in {k \in DOMAIN items :
                                /\ SameBox(items, i, k)
                                /\ ColumnRankAt(items, k) = ColumnRankAt(items, i)}}
    IN  CHOOSE w \in widths : \A q \in widths : q <= w

\* Item i is in the first non-empty column of its box.
InFirstColumn(items, i) ==
    \A k \in DOMAIN items :
        SameBox(items, i, k) => ColumnRankAt(items, i) <= ColumnRankAt(items, k)

\* C21: in a board laid out with no prior board the items of one column of
\* a context (Commands and Policies; Aggregates; Events and ReadModels) have
\* one x; the first non-empty column is at box.x + PADDING, each further
\* non-empty column at the x of the non-empty column before it plus that
\* column's width plus ITEM_H_GAP, so that an empty column takes no space.
C21_ColumnBucketing ==
    (Returned /\ existing_board = NoBoard) =>
        /\ \A i, j \in DOMAIN board.items :
              (SameBox(board.items, i, j)
               /\ ColumnRankAt(board.items, i) = ColumnRankAt(board.items, j))
              => board.items[i].x = board.items[j].x
        /\ \A i \in DOMAIN board.items :
              (~IsBox(board.items[i]) /\ InFirstColumn(board.items, i))
              => board.items[i].x = board.items[BoxPos(board.items, i)].x + PADDING
        /\ \A i, j \in DOMAIN board.items :
              NextColumn(board.items, i, j)
              => board.items[j].x
                    = board.items[i].x + ColumnWidth(board.items, i) + ITEM_H_GAP

\* A board laid out with no prior board in which a box has a left and a
\* right column and no center column between them.
C21_Witness ==
    /\ Returned
    /\ existing_board = NoBoard
    /\ \E i, j \in DOMAIN board.items :
          /\ NextColumn(board.items, i, j)
          /\ InFirstColumn(board.items, i)
          /\ ColumnRankAt(board.items, i) = 1
          /\ ColumnRankAt(board.items, j) = 3

-----------------------------------------------------------------------------
\* Vocabulary of the repair properties.  m is the item list as it stands
\* when the repair begins; positions are the same in m and in the board.

\* The positions of the children of the box at position b.
ChildrenAt(items, b) == {i \in DOMAIN items : ~IsBox(items[i]) /\ BoxPos(items, i) = b}

\* The rectangles of a and b have a point in common, edges included.
Meets(a, b) == Touches(a.x, a.y, a.width, a.height, b)

\* Every child of the box at position b has a point in common with the box.
NoneDetached(m, b) == \A i \in ChildrenAt(m, b) : Meets(m[i], m[b])

Right(r) == r.x + r.width
Bottom(r) == r.y + r.height

\* The greatest element of a non-empty set of numbers.
Greatest(S) == CHOOSE v \in S : \A w \in S : w <= v

\* C22 as claimed: the repair moves no child that has a point in common
\* with its box, and a box with no detached children becomes the smallest
\* rectangle that contains the box and its children.
C22_Original ==
    Returned =>
        LET m == items_before_repair(concepts, existing_board)
        IN  /\ \A i \in DOMAIN m :
                  (~IsBox(m[i]) /\ Meets(m[i], m[BoxPos(m, i)]))
                  => board.items[i].x = m[i].x /\ board.items[i].y = m[i].y
            /\ \A b \in DOMAIN m :
                  (IsBox(m[b]) /\ NoneDetached(m, b)) =>
                      /\ board.items[b].x
                            = Least({m[i].x : i \in ChildrenAt(m, b) \cup {b}})
                      /\ board.items[b].y
                            = Least({m[i].y : i \in ChildrenAt(m, b) \cup {b}})
                      /\ Right(board.items[b])
                            = Greatest({Right(m[i]) : i \in ChildrenAt(m, b) \cup {b}})
                      /\ Bottom(board.items[b])
                            = Greatest({Bottom(m[i]) : i \in ChildrenAt(m, b) \cup {b}})

\* C22 (amended): the repair moves no child that has a point in common with
\* its box.  Of a box with no detached children the left and the top edge
\* move exactly to the leftmost and topmost child edge and no further; the
\* right (bottom) edge stays where it is when no child sticks out over it,
\* and otherwise moves to the right (bottom) edge of a child that sticks out
\* plus PADDING, beyond every child's edge.
C22_GrowToFit ==
    Returned =>
        LET m == items_before_repair(concepts, existing_board)
        IN  /\ \A i \in DOMAIN m :
                  (~IsBox(m[i]) /\ Meets(m[i], m[BoxPos(m, i)]))
                  => board.items[i].x = m[i].x /\ board.items[i].y = m[i].y
            /\ \A b \in DOMAIN m :
                  (IsBox(m[b]) /\ NoneDetached(m, b)) =>
                      /\ board.items[b].x
                            = Least({m[i].x : i \in ChildrenAt(m, b) \cup {b}})
                      /\ board.items[b].y
                            = Least({m[i].y : i \in ChildrenAt(m, b) \cup {b}})
                      /\ \A i \in ChildrenAt(m, b) :
                            /\ Right(m[i]) <= Right(board.items[b])
                            /\ Bottom(m[i]) <= Bottom(board.items[b])
                      /\ IF \E i \in ChildrenAt(m, b) : Right(m[i]) > Right(m[b])
                         THEN \E i \in ChildrenAt(m, b) :
                                 /\ Right(m[i]) > Right(m[b])
                                 /\ Right(board.items[b]) = Right(m[i]) + PADDING
                         ELSE Right(board.items[b]) = Right(m[b])
                      /\ IF \E i \in ChildrenAt(m, b) : Bottom(m[i]) > Bottom(m[b])
                         THEN \E i \in ChildrenAt(m, b) :
                                 /\ Bottom(m[i]) > Bottom(m[b])
                                 /\ Bottom(board.items[b]) = Bottom(m[i]) + PADDING
                         ELSE Bottom(board.items[b]) = Bottom(m[b])

\* A run in which a box with no detached children had a child sticking out
\* over its right edge and a child sticking out over its left or top edge.
C22_Witness ==
    /\ Returned
    /\ LET m == items_before_repair(concepts, existing_board)
       IN  \E b \in DOMAIN m :
              /\ IsBox(m[b]) /\ NoneDetached(m, b)
              /\ \E i \in ChildrenAt(m, b) : Right(m[i]) > Right(m[b])
              /\ \E i \in ChildrenAt(m, b) : m[i].x < m[b].x \/ m[i].y < m[b].y

\* The detached children of the box at position b: those with no point in
\* common with the box; the attached children are the others.
DetachedAt(m, b) == {i \in ChildrenAt(m, b) : ~Meets(m[i], m[b])}
AttachedAt(m, b) == ChildrenAt(m, b) \ DetachedAt(m, b)

\* Child i comes before child j in the column of re-placed children: by
\* type precedence, then by list order.
Precedes(m, i, j) ==
    \/ type_order(m[i].type) < type_order(m[j].type)
    \/ type_order(m[i].type) = type_order(m[j].type) /\ i < j

\* The room the children of S take in a column: heights and gaps.
RECURSIVE Stacked(_, _)
Stacked(m, S) ==
    IF S = {} THEN 0
    ELSE LET e == CHOOSE x \in S : TRUE
         IN  m[e].height + ITEM_V_GAP + Stacked(m, S \ {e})

\* The bottom edge of the box at position b without the growth for its
\* re-placed children.
BottomBeforeSnap(m, items, b) == Bottom(items[b]) - Stacked(m, DetachedAt(m, b))

\* The bottom edge of the box at position b after the growth for its
\* attached children: its own, or that of an attached child sticking out
\* plus PADDING.
GrownBottom(m, b, bottom) ==
    IF \E i \in AttachedAt(m, b) : Bottom(m[i]) > Bottom(m[b])
    THEN \E i \in AttachedAt(m, b) :
            Bottom(m[i]) > Bottom(m[b]) /\ bottom = Bottom(m[i]) + PADDING
    ELSE bottom = Bottom(m[b])

\* The detached children of the box at position b stand in one column at
\* box.x + PADDING, in the order of Precedes, ITEM_V_GAP apart, the first at
\* y0.
InOneColumn(m, items, b, y0) ==
    \A i \in DetachedAt(m, b) :
        /\ items[i].x = items[b].x + PADDING
        /\ items[i].y = y0 + Stacked(m, {k \in DetachedAt(m, b) : Precedes(m, k, i)})

-----------------------------------------------------------------------------
\* Vocabulary of the dimension properties (specification DimSpec).

DimReturned == dim_result # NoResult

\* The reference width and height of the claim, from the kind, the lengths
\* of name and description and the number of structured fields.
ReferenceWidth(kind, nameLen) ==
    IF nameLen > 0
    THEN Max(BASE_ITEM_DIMENSIONS(kind).width, Min(460, 140 + 9 * nameLen))
    ELSE BASE_ITEM_DIMENSIONS(kind).width

ReferenceHeight(kind, descriptionLen, fieldCount) ==
    BASE_ITEM_DIMENSIONS(kind).height
    + (IF descriptionLen > 0 THEN 14 * ((descriptionLen \div 40) + 1) ELSE 0)
    + Min(80, 6 * fieldCount)

\* C24 as claimed: the returned width and height are the reference width
\* and the reference height, and lie in [140, 460] and [80, 260].
C24_Original ==
    DimReturned =>
        /\ dim_result[1] = ReferenceWidth(dim_args.item_type, Len(dim_args.data.name))
        /\ dim_result[2] = ReferenceHeight(dim_args.item_type,
                                           Len(dim_args.data.description),
                                           Len(dim_args.data.attributes))
        /\ 140 <= dim_result[1] /\ dim_result[1] <= 460
        /\ 80 <= dim_result[2] /\ dim_result[2] <= 260

\* C24 (amended): the returned width is the reference width, the returned
\* height is the reference height cut at 260, and they lie in [140, 460]
\* and [80, 260].
C24_Dimensions ==
    DimReturned =>
        /\ dim_result[1] = ReferenceWidth(dim_args.item_type, Len(dim_args.data.name))
        /\ dim_result[2] = Min(260, ReferenceHeight(dim_args.item_type,
                                                    Len(dim_args.data.description),
                                                    Len(dim_args.data.attributes)))
        /\ 140 <= dim_result[1] /\ dim_result[1] <= 460
        /\ 80 <= dim_result[2] /\ dim_result[2] <= 260

\* A call whose reference height exceeds 260 and whose name widens the item
\* to the maximum width.
C24_Witness ==
    /\ DimReturned
    /\ Len(dim_args.data.name) > 0
    /\ dim_result[1] = 460
    /\ ReferenceHeight(dim_args.item_type, Len(dim_args.data.description),
                       Len(dim_args.data.attributes)) > 260

\* The arguments of the bounds that differ from args by a name, a
\* description and a field list at least as long.
Lengthened(args) ==
    {a \in DimArgs :
        /\ a.item_type = args.item_type
        /\ Len(a.data.name) >= Len(args.data.name)
        /\ Len(a.data.description) >= Len(args.data.description)
        /\ Len(a.data.attributes) >= Len(args.data.attributes)}

\* C25: a longer name, a longer description or more structured fields, the
\* kind being the same, never give a smaller width or a smaller height.
C25_DimensionMonotonicity ==
    DimReturned =>
        \A a \in Lengthened(dim_args) :
            /\ dim_result[1] <= compute_item_dimensions(a.item_type, a.data)[1]
            /\ dim_result[2] <= compute_item_dimensions(a.item_type, a.data)[2]

\* A call with an empty name, and lengthened arguments that give a greater
\* width and a greater height.
C25_Witness ==
    /\ DimReturned
    /\ Len(dim_args.data.name) = 0
    /\ \E a \in Lengthened(dim_args) :
          /\ Len(a.data.name) = 1
          /\ dim_result[2] < compute_item_dimensions(a.item_type, a.data)[2]
    /\ \E a \in Lengthened(dim_args) :
          dim_result[1] < compute_item_dimensions(a.item_type, a.data)[1]

-----------------------------------------------------------------------------
\* Vocabulary of the normalizer properties (specification NormSpec).

NormalizerReturned == normalized # NoPayload

CollectionKeys == {"events", "commands", "policies", "aggregates", "readModels"}

\* What the claim says a collection becomes: absent or null the empty list,
\* a list itself, any other value the list of that value.
AsList(d, k) ==
    IF k \notin DOMAIN d THEN List(<< >>)
    ELSE IF d[k].t = "null" THEN List(<< >>)
    ELSE IF d[k].t = "list" THEN d[k]
    ELSE List(<<d[k]>>)

\* The entries of the payload's contexts that are objects, in their order.
ContextObjects(p) ==
    SelectSeq(AsList(p.d, "contexts").l, LAMBDA c : c.t = "dict")

\* C26: the normalizer does not raise, and for a payload that is an object
\* the contexts of its output are the object entries of the input's
\* contexts in their order, each with its five collections present as
\* lists: the empty list for an absent or null collection, [v] for a value
\* v that is not a list, the list itself otherwise.
C26_NormalizerTotal ==
    NormalizerReturned =>
        /\ normalized.t # "raised"
        /\ payload.t # "dict" => normalized = payload
        /\ payload.t = "dict" =>
              /\ normalized.t = "dict"
              /\ "contexts" \in DOMAIN normalized.d
              /\ normalized.d["contexts"].t = "list"
              /\ Len(normalized.d["contexts"].l) = Len(ContextObjects(payload))
              /\ \A i \in DOMAIN ContextObjects(payload) :
                    /\ normalized.d["contexts"].l[i].t = "dict"
                    /\ \A k \in CollectionKeys :
                          /\ k \in DOMAIN normalized.d["contexts"].l[i].d
                          /\ normalized.d["contexts"].l[i].d[k]
                                = AsList(ContextObjects(payload)[i].d, k)
                    /\ \A k \in DOMAIN ContextObjects(payload)[i].d \ CollectionKeys :
                          normalized.d["contexts"].l[i].d[k]
                              = get(ContextObjects(payload)[i].d, k)

\* A call whose contexts hold entries that are not objects, before and
\* between two contexts, one with all collections absent.
C26_Witness ==
    /\ NormalizerReturned
    /\ payload.t = "dict"
    /\ Len(AsList(payload.d, "contexts").l) = 4
    /\ Len(ContextObjects(payload)) = 2
    /\ ContextObjects(payload)[1] = CtxBare
    /\ normalized.d["contexts"].l[2] = CtxFull

\* The value of key k of the object is absent, null or the empty string.
NotGiven(d, k) ==
    \/ k \notin DOMAIN d
    \/ d[k].t = "null"
    \/ d[k].t = "str" /\ d[k].s = ""

\* The value of key k of the object is a non-empty string.
NonEmptyString(d, k) ==
    /\ k \in DOMAIN d
    /\ d[k].t = "str"
    /\ d[k].s # ""

\* C27: after the normalization of a payload that is an object the project
\* name is a non-empty string, the placeholder when the input's was absent,
\* null or empty, and every connection entry has a type, "Flow" when the
\* input's entry had none (absent, null or empty).
C27_DefaultedScalars ==
    (NormalizerReturned /\ payload.t = "dict") =>
        /\ NonEmptyString(normalized.d, "project_name")
        /\ NotGiven(payload.d, "project_name")
              => normalized.d["project_name"] = Str("generated-project")
        /\ \A i \in DOMAIN normalized.d["connections"].l :
              /\ normalized.d["connections"].l[i].t = "dict"
              /\ NonEmptyString(normalized.d["connections"].l[i].d, "type")
              /\ NotGiven(AsList(payload.d, "connections").l[i].d, "type")
                    => normalized.d["connections"].l[i].d["type"] = Str("Flow")

-----------------------------------------------------------------------------
\* Vocabulary of the agent properties (specification AgentSpec).

AgentReturned == agent_pc = "returned"

\* Every generator call so far failed.
AllFailed == \A k \in DOMAIN responses : responses[k] \in Failures

IsErrorBoard(b) ==
    /\ Len(b.items) = 1
    /\ b.items[1].type = "Error"
    /\ b.connections = << >>

\* The generator was asked at most three times and not again after a
\* response that parsed and validated; a call that has returned returned the
\* error board without any layout run when three calls failed, and the
\* board of exactly one layout run otherwise.
AgentSafe ==
    /\ attempts <= 3
    /\ Len(responses) = attempts
    /\ \A k \in DOMAIN responses : k < Len(responses) => responses[k] \in Failures
    /\ layout_calls <= 1
    /\ AgentReturned =>
          IF AllFailed
          THEN attempts = 3 /\ IsErrorBoard(board) /\ layout_calls = 0
          ELSE layout_calls = 1 /\ ~IsErrorBoard(board)
                  /\ board = _create_eventstorming_board(generated, existing_board)

\* C28: ainvoke asks the generator at most three times and stops at the
\* first response that parses and validates; when all three attempts fail
\* it returns the error board (one item of type "Error", no connections)
\* and never runs the layout; when an attempt succeeds the layout runs
\* exactly once and the error board is not returned.  The call returns.
C28_BoundedRetries == []AgentSafe /\ <>AgentReturned

\* A call that returned the error board after three failures of different
\* kinds.
C28_Witness ==
    /\ AgentReturned
    /\ responses = <<"JSONDecodeError", "ValidationError", "Exception">>
    /\ IsErrorBoard(board)

-----------------------------------------------------------------------------
\* Vocabulary of the merge properties.

BoxesOf(b) == {i \in DOMAIN b.items : IsBox(b.items[i])}

\* The ContextBoxes of the prior board do not overlap one another.
PriorBoxesApart ==
    \A i, j \in BoxesOf(existing_board) :
        i # j => ~Overlap(existing_board.items[i], existing_board.items[j])

\* The ContextBoxes of the prior board named as box i of the returned board.
PriorBoxesOf(i) ==
    {p \in BoxesOf(existing_board) :
        existing_board.items[p].instanceName = board.items[i].instanceName}

\* Box i of the returned board is of a context new to the board.
NewBox(i) == i \in BoxesOf(board) /\ PriorBoxesOf(i) = {}

\* Box i of the returned board stands where a prior box of its name stood.
KeptBox(i) ==
    /\ i \in BoxesOf(board)
    /\ \E p \in PriorBoxesOf(i) :
          /\ board.items[i].x = existing_board.items[p].x
          /\ board.items[i].y = existing_board.items[p].y

\* C29: after a merge against a prior board whose ContextBoxes do not
\* overlap one another, the box of a context new to the board overlaps no
\* ContextBox kept at its prior position.
C29_NewBoxesApart ==
    (Returned /\ existing_board # NoBoard /\ PriorBoxesApart) =>
        \A i, j \in BoxesOf(board) :
            (NewBox(i) /\ KeptBox(j)) => ~Overlap(board.items[i], board.items[j])

\* What the model declares of an item: its type, name and description, and
\* for a domain item the size computed from its content.
Declaration(item_type, name, description, size) ==
    [type |-> item_type, instanceName |-> name, description |-> description,
     size |-> size]

NoSize == <<0, 0>>

DeclaredOf(context) ==
    LET entries == left_column(context) \o center_column(context) \o right_column(context)
    IN  <<Declaration("ContextBox", context.name, context.description, NoSize)>>
        \o [i \in DOMAIN entries |->
               Declaration(entries[i].type, entries[i].data.name,
                           entries[i].data.description, entries[i].dimensions)]

RECURSIVE DeclaredFrom(_, _)
DeclaredFrom(contexts, idx) ==
    IF idx > Len(contexts) THEN << >>
    ELSE DeclaredOf(contexts[idx]) \o DeclaredFrom(contexts, idx + 1)

\* The same of the items of a board.
DeclarationsIn(b) ==
    [i \in DOMAIN b.items |->
        Declaration(b.items[i].type, b.items[i].instanceName, b.items[i].description,
                    IF IsBox(b.items[i]) THEN NoSize
                    ELSE <<b.items[i].width, b.items[i].height>>)]

\* The items of the returned board are the model's: a ContextBox per
\* context in model order, each followed by its Commands, Policies,
\* Aggregates, Events and ReadModels, with the sizes of their content.
ItemsAsDeclared == DeclarationsIn(board) = DeclaredFrom(concepts.contexts, 1)

\* The prior board with nothing left of its items but type, name, id, x
\* and y, and without its name and connections.
Erased(b) ==
    [boardType |-> b.boardType,
     instanceName |-> "",
     items |-> [i \in DOMAIN b.items |->
                   [b.items[i] EXCEPT !.parent = 0, !.description = "",
                                      !.width = 0, !.height = 0,
                                      !.producesEventId = 0]],
     connections |-> << >>]

\* The returned board is the one the model gives with the erased prior board.
OnlyIdentityAndPosition ==
    board = _create_eventstorming_board(concepts, Erased(existing_board))

\* Each box has the size computed from its context of the model.
BoxSizesFresh ==
    \A i \in BoxesOf(board) :
        /\ board.items[i].width = context_width(ContextAt(board.items, i))
        /\ board.items[i].height = context_height(ContextAt(board.items, i))

BoxSizesFreshOrGrown ==
    \A i \in BoxesOf(board) :
        /\ board.items[i].width >= context_width(ContextAt(board.items, i))
        /\ board.items[i].height >= context_height(ContextAt(board.items, i))

\* C30 as stated: the items of a returned board are the model's, in model
\* order, nothing of the prior board but id, x and y is carried over, and
\* the sizes of boxes and items are the ones computed from the model.
C30_Original ==
    Returned => (ItemsAsDeclared /\ OnlyIdentityAndPosition /\ BoxSizesFresh)

\* C30: the items of a returned board are the model's, in model order, each
\* domain item with the size computed from its content; nothing of the
\* prior board but type, name, id, x and y of its items bears on the result;
\* a box has the size computed from the model or, grown by the repair, a
\* larger one.
C30_ModelItemsOnly ==
    Returned => (ItemsAsDeclared /\ OnlyIdentityAndPosition /\ BoxSizesFreshOrGrown)

\* A merge that dropped an item of the prior board, kept id and position of
\* another and returned a box wider than the model's.
C30_Witness ==
    /\ Returned
    /\ \E p \in DOMAIN existing_board.items :
          \A i \in DOMAIN board.items :
              <<board.items[i].type, board.items[i].instanceName>>
                 # <<existing_board.items[p].type, existing_board.items[p].instanceName>>
    /\ \E p \in DOMAIN existing_board.items : \E i \in DOMAIN board.items :
          /\ ~IsBox(board.items[i])
          /\ board.items[i].type = existing_board.items[p].type
          /\ board.items[i].instanceName = existing_board.items[p].instanceName
          /\ board.items[i].id = existing_board.items[p].id
          /\ board.items[i].x = existing_board.items[p].x
          /\ board.items[i].y = existing_board.items[p].y
    /\ \E i \in BoxesOf(board) :
          board.items[i].width > context_width(ContextAt(board.items, i))

====
